---- MODULE Spec2Model ----
(***************************************************************************)
(* Hub-and-spoke offshore network optimisation                             *)
(* (src/archive/optimise_hubandspoke_interconnect.py): the feasibility     *)
(* graph builder, the model builder, the two-stage solve of opt_model and  *)
(* the result extraction.                                                  *)
(*                                                                         *)
(* Numbers.  Capacities are whole MW and distances whole km.  Every entity *)
(* lies on one meridian (longitude 0) and its latitude is given as km of   *)
(* arc along that meridian, so the great-circle distance of two entities   *)
(* is the absolute difference of their latitudes.  Costs are whole         *)
(* currency units: every placeholder cost is a multiple of 10 before the   *)
(* 1.1 polarity factor is applied, so the factor is exact in integers.     *)
(*                                                                         *)
(* Solver.  solver.solve is an external service.  It is modelled by its    *)
(* contract: a return with status ok and termination condition optimal     *)
(* loads a cost-minimal point of the active constraints into the free      *)
(* variables; infeasible is reported only for an infeasible problem; any   *)
(* other return may load nothing or may load values that satisfy nothing   *)
(* ("Results may not be reliable", line 1004).  Fixed variables are never  *)
(* written by a solve.                                                     *)
(***************************************************************************)
EXTENDS Integers, Sequences, FiniteSets, TLC

(* ------------------------------ bounds ------------------------------ *)
\* number of wind farms, offshore and onshore substations in the datasets
NumWF == 2
NumOSS == 2
NumONSS == 1
\* largest wind farm capacity in the datasets
MaxWfCap == 1
\* largest number of rows in the attribute table of a layer
MaxRows == 2
\* largest Var value handed to the extraction of one item, in tenths of a unit
MaxTenths == 125

(* -------------------------- program constants ----------------------- *)
\* find_viable_iac: "if distance <= 150"
IacMaxDist == 150
\* find_viable_ec: "if distance <= 300"
EcMaxDist == 300
\* tot_wf_cap_rule: "min_req_cap = 1 * sum(...)"
MinCapFraction == 1
\* value of a Pyomo Var before any solution is loaded (None)
NoValue == -1

(* ------------------------------ inputs ------------------------------ *)
\* iso_to_int_mp: 'DE' -> 1, 'DK' -> 2
IsoCodes == {1, 2}
WfLats == {0}
OssLats == {150, 151}
OnssLats == {450, 452}
WfCaps == 1..MaxWfCap
WfCosts == {100}
OssWdepths == {20}
OssIcovers == {0}
OssPdists == {10}
\* top of the bounded value range of every capacity variable
CapTop == NumWF * MaxWfCap
OnssTholds == {0, CapTop}
OnssIdPool == 1..(NumOSS + NumONSS)

VARIABLES
    wf_dataset, oss_dataset, onss_dataset,   \* the loaded datasets (rows in file order)
    viable_iac, viable_ec,                   \* lists of feasible connections
    viable_wf_ids, viable_oss_ids, viable_onss_ids,
    wf_bool_var, oss_cap_var, onss_cap_var, iac_cap_var, ec_cap_var,
    fixed,                                   \* indices of the fixed variables, per Var
    active,                                  \* names of the active constraints
    pc,                                      \* position in opt_model
    results_stage1, results,                 \* what the two solves returned
    solver_log,                              \* one entry per solver.solve call
    result_files,                            \* collections written by save_results
    report,                                  \* the status message printed at the end
    uf_tool, uf_pc,                          \* the update_fields run and its position
    layer,                                   \* the map layer update_fields works on
    existing_fields,                         \* the field names update_fields has read
    messages,                                \* arcpy.AddMessage / AddError output
    cost_pc,                                 \* position in a cost computation
    cost_args,                               \* its arguments
    cost_vals,                               \* the values it has computed
    item,                                    \* a Var value save_results looks at
    item_records                             \* the records it made of it

vars == <<wf_dataset, oss_dataset, onss_dataset, viable_iac, viable_ec,
          viable_wf_ids, viable_oss_ids, viable_onss_ids,
          wf_bool_var, oss_cap_var, onss_cap_var, iac_cap_var, ec_cap_var,
          fixed, active, pc, results_stage1, results, solver_log,
          result_files, report, uf_tool, uf_pc, layer, existing_fields, messages,
          cost_pc, cost_args, cost_vals, item, item_records>>

\* the state of opt_model
opt == <<wf_dataset, oss_dataset, onss_dataset, viable_iac, viable_ec,
         viable_wf_ids, viable_oss_ids, viable_onss_ids,
         wf_bool_var, oss_cap_var, onss_cap_var, iac_cap_var, ec_cap_var,
         fixed, active, pc, results_stage1, results, solver_log,
         result_files, report>>
\* the state of the dataset tools, which opt_model does not touch
uf == <<uf_tool, uf_pc, layer, existing_fields, messages>>
costing == <<cost_pc, cost_args, cost_vals>>
extraction == <<item, item_records>>
tools == <<uf, costing, extraction>>

datasets == <<wf_dataset, oss_dataset, onss_dataset>>
graph == <<viable_iac, viable_ec, viable_wf_ids, viable_oss_ids, viable_onss_ids>>
values == <<wf_bool_var, oss_cap_var, onss_cap_var, iac_cap_var, ec_cap_var>>

(* ------------------------------ helpers ------------------------------ *)
Range(s) == {s[i] : i \in 1..Len(s)}

Abs(x) == IF x < 0 THEN -x ELSE x

RECURSIVE SumOver(_, _)
\* Python's sum(f[x] for x in S)
SumOver(S, f) ==
    IF S = {} THEN 0
    ELSE LET x == CHOOSE y \in S : TRUE
         IN f[x] + SumOver(S \ {x}, f)

\* a Python dict built by inserting the rows' field in row order
Dict(rows, field) ==
    [keys |-> [i \in 1..Len(rows) |-> rows[i].id],
     val  |-> [k \in {rows[i].id : i \in 1..Len(rows)} |->
                 (CHOOSE r \in Range(rows) : r.id = k)[field]]]

\* zip(a, b) in the place of product(a, b)
zip_pairs(a, b) ==
    [k \in 1..(IF Len(a) < Len(b) THEN Len(a) ELSE Len(b)) |-> <<a[k], b[k]>>]

\* itertools.product(a, b): for x in a: for y in b
product(a, b) ==
    [k \in 1..(Len(a) * Len(b)) |->
        <<a[((k - 1) \div Len(b)) + 1], b[((k - 1) % Len(b)) + 1]>>]

(* ------------------- component identifiers and data ------------------ *)
wf_ids == [i \in 1..Len(wf_dataset) |-> wf_dataset[i].id]
oss_ids == [i \in 1..Len(oss_dataset) |-> oss_dataset[i].id]
onss_ids == [i \in 1..Len(onss_dataset) |-> onss_dataset[i].id]

wf_iso == Dict(wf_dataset, "iso")
wf_lon == Dict(wf_dataset, "lon")
wf_lat == Dict(wf_dataset, "lat")
wf_cap == Dict(wf_dataset, "cap")
wf_cost == Dict(wf_dataset, "cost")

oss_iso == Dict(oss_dataset, "iso")
oss_lon == Dict(oss_dataset, "lon")
oss_lat == Dict(oss_dataset, "lat")
oss_wdepth == Dict(oss_dataset, "wdepth")
oss_icover == Dict(oss_dataset, "icover")
oss_pdist == Dict(oss_dataset, "pdist")

onss_iso == Dict(onss_dataset, "iso")
onss_lon == Dict(onss_dataset, "lon")
onss_lat == Dict(onss_dataset, "lat")
onss_thold == Dict(onss_dataset, "thold")

(* --------------------------- distance service ------------------------ *)
\* great-circle distance in km of two points of one meridian
haversine(lon1, lat1, lon2, lat2) == Abs(lat2 - lat1)

(* ----------------------- feasibility graph builder ------------------- *)
RECURSIVE iac_loop(_, _, _, _, _, _, _, _, _)
iac_loop(pairs, i, connections, wflon, wflat, osslon, osslat, wfiso, ossiso) ==
    IF i > Len(pairs) THEN connections
    ELSE LET wf_id == pairs[i][1]
             oss_id == pairs[i][2]
             distance == haversine(wflon.val[wf_id], wflat.val[wf_id],
                                   osslon.val[oss_id], osslat.val[oss_id])
             next == IF distance <= IacMaxDist /\ wfiso.val[wf_id] = ossiso.val[oss_id]
                     THEN Append(connections, <<wf_id, oss_id>>)
                     ELSE connections
         IN iac_loop(pairs, i + 1, next, wflon, wflat, osslon, osslat, wfiso, ossiso)

\* find_viable_iac without the comparison of the country codes
find_viable_iac_any_iso(wflon, wflat, osslon, osslat, wfiso, ossiso) ==
    SelectSeq(product(wflon.keys, osslon.keys),
              LAMBDA pr : haversine(wflon.val[pr[1]], wflat.val[pr[1]],
                                    osslon.val[pr[2]], osslat.val[pr[2]]) <= IacMaxDist)

\* find_viable_iac with `<` for `<=`: a pair at exactly the threshold is lost
find_viable_iac_strict(wflon, wflat, osslon, osslat, wfiso, ossiso) ==
    SelectSeq(product(wflon.keys, osslon.keys),
              LAMBDA pr : /\ haversine(wflon.val[pr[1]], wflat.val[pr[1]],
                                       osslon.val[pr[2]], osslat.val[pr[2]]) < IacMaxDist
                          /\ wfiso.val[pr[1]] = ossiso.val[pr[2]])

find_viable_iac(wflon, wflat, osslon, osslat, wfiso, ossiso) ==
    iac_loop(product(wflon.keys, osslon.keys), 1, <<>>,
             wflon, wflat, osslon, osslat, wfiso, ossiso)

RECURSIVE ec_loop(_, _, _, _, _, _, _, _, _)
ec_loop(pairs, i, connections, osslon, osslat, onsslon, onsslat, ossiso, onssiso) ==
    IF i > Len(pairs) THEN connections
    ELSE LET oss_id == pairs[i][1]
             onss_id == pairs[i][2]
             distance == haversine(osslon.val[oss_id], osslat.val[oss_id],
                                   onsslon.val[onss_id], onsslat.val[onss_id])
             next == IF distance <= EcMaxDist /\ ossiso.val[oss_id] = onssiso.val[onss_id]
                     THEN Append(connections, <<oss_id, onss_id>>)
                     ELSE connections
         IN ec_loop(pairs, i + 1, next, osslon, osslat, onsslon, onsslat, ossiso, onssiso)

find_viable_ec(osslon, osslat, onsslon, onsslat, ossiso, onssiso) ==
    ec_loop(product(osslon.keys, onsslon.keys), 1, <<>>,
            osslon, osslat, onsslon, onsslat, ossiso, onssiso)

RECURSIVE entities_loop(_, _, _, _)
\* one of the two loops of get_viable_entities: adds the first endpoints of
\* conns[i..] to `first` and the second endpoints to `second`
entities_loop(conns, i, first, second) ==
    IF i > Len(conns) THEN <<first, second>>
    ELSE entities_loop(conns, i + 1, first \cup {conns[i][1]}, second \cup {conns[i][2]})

\* get_viable_entities without the offshore endpoints of the export edges
get_viable_entities_iac_only(viac, vec) ==
    LET from_iac == entities_loop(viac, 1, {}, {})
        from_ec == entities_loop(vec, 1, {}, {})
    IN <<from_iac[1], from_iac[2], from_ec[2]>>

\* returns <<viable_wf, viable_oss, viable_onss>>
get_viable_entities(viac, vec) ==
    LET from_iac == entities_loop(viac, 1, {}, {})
        from_ec == entities_loop(vec, 1, from_iac[2], {})
    IN <<from_iac[1], from_ec[1], from_ec[2]>>

\* model.viable_iac_ids, model.viable_ec_ids: Set(initialize=...)
viable_iac_ids == Range(viable_iac)
viable_ec_ids == Range(viable_ec)

(* ------------------------------ datasets ----------------------------- *)
\* the sequences over S that list `n` distinct ids of `pool` in rising order
RowsOf(n, pool, S) ==
    {rows \in [1..n -> S] :
        /\ \A i \in 1..n : rows[i].id \in pool
        /\ \A i, j \in 1..n : i < j => rows[i].id < rows[j].id}

WfRows == [id : 1..NumWF, iso : IsoCodes, lon : {0}, lat : WfLats,
           cap : WfCaps, cost : WfCosts]
OssRows == [id : 1..NumOSS, iso : IsoCodes, lon : {0}, lat : OssLats,
            wdepth : OssWdepths, icover : OssIcovers, pdist : OssPdists]
OnssRows == [id : OnssIdPool, iso : IsoCodes, lon : {0}, lat : OnssLats,
             thold : OnssTholds]

NoResults == [status |-> "none", termination_condition |-> "none"]
ConstraintNames == {"tot_wf_cap_con", "iac_cap_connect_con", "oss_cap_connect_con",
                    "ec_cap_connect_con", "onss_cap_connect_con"}
NothingFixed == [wf_bool_var |-> {}, oss_cap_var |-> {}, onss_cap_var |-> {},
                 iac_cap_var |-> {}, ec_cap_var |-> {}]

\* opt_model before the model is defined: no graph, no Var, no result
NothingBuilt ==
    /\ viable_iac = <<>>
    /\ viable_ec = <<>>
    /\ viable_wf_ids = {}
    /\ viable_oss_ids = {}
    /\ viable_onss_ids = {}
    /\ wf_bool_var = <<>>
    /\ oss_cap_var = <<>>
    /\ onss_cap_var = <<>>
    /\ iac_cap_var = <<>>
    /\ ec_cap_var = <<>>
    /\ fixed = NothingFixed
    /\ active = {}
    /\ pc = "define"
    /\ results_stage1 = NoResults
    /\ results = NoResults
    /\ solver_log = <<>>
    /\ result_files = <<>>
    /\ report = ""

\* no dataset tool is running
NoLayer == [found |-> FALSE, fields |-> {}, rows |-> <<>>]
FieldsIdle ==
    /\ uf_tool = "none"
    /\ uf_pc = "idle"
    /\ layer = NoLayer
    /\ existing_fields = {}
    /\ messages = <<>>
CostIdle ==
    /\ cost_pc = "idle"
    /\ cost_args = <<>>
    /\ cost_vals = <<>>
ExtractionIdle ==
    /\ item = <<>>
    /\ item_records = <<>>
ToolsIdle == FieldsIdle /\ CostIdle /\ ExtractionIdle

Init ==
    /\ wf_dataset \in RowsOf(NumWF, 1..NumWF, WfRows)
    /\ oss_dataset \in RowsOf(NumOSS, 1..NumOSS, OssRows)
    /\ onss_dataset \in RowsOf(NumONSS, OnssIdPool, OnssRows)
    /\ NothingBuilt
    /\ ToolsIdle

(* ---------------------------- model builder -------------------------- *)
\* lines 643-659: the viable sets and the Vars, none with a value yet
DeclareVariables ==
    LET viac == find_viable_iac(wf_lon, wf_lat, oss_lon, oss_lat, wf_iso, oss_iso)
        vec == find_viable_ec(oss_lon, oss_lat, onss_lon, onss_lat, oss_iso, onss_iso)
        ents == get_viable_entities(viac, vec)
    IN /\ viable_iac' = viac
       /\ viable_ec' = vec
       /\ viable_wf_ids' = ents[1]
       /\ viable_oss_ids' = ents[2]
       /\ viable_onss_ids' = ents[3]
       /\ wf_bool_var' = [wf \in ents[1] |-> NoValue]
       /\ oss_cap_var' = [oss \in ents[2] |-> NoValue]
       /\ onss_cap_var' = [onss \in ents[3] |-> NoValue]
       /\ iac_cap_var' = [e \in Range(viac) |-> NoValue]
       /\ ec_cap_var' = [e \in Range(vec) |-> NoValue]

\* lines 613-808 with at least one viable wind farm: the five constraints
\* are built, all active on construction
DefineModel ==
    /\ pc = "define"
    /\ DeclareVariables
    /\ viable_wf_ids' # {}
    /\ active' = ConstraintNames
    /\ pc' = "stage1"
    /\ UNCHANGED <<tools, datasets, fixed, results_stage1, results, solver_log,
                   result_files, report>>

\* lines 613-772 with no viable wind farm: both sums of tot_wf_cap_rule are
\* empty, the rule returns the Python value True (0 >= 0) instead of an
\* expression, and Constraint(rule=...) raises on it; no constraint exists
DefineModelRaise ==
    /\ pc = "define"
    /\ DeclareVariables
    /\ viable_wf_ids' = {}
    /\ active' = {}
    /\ pc' = "raised"
    /\ UNCHANGED <<tools, datasets, fixed, results_stage1, results, solver_log,
                   result_files, report>>

(* ------------------------- cost expression builder ------------------- *)
\* cost *= 1.1 for polarity "AC": exact, every argument is a multiple of 10
Times11Over10(cost) == (cost * 11) \div 10

oss_cost_plh(wdepth, icover, pdist, capacity) ==
    Times11Over10(wdepth * 1000 + icover * 5000 + pdist * 2000 + capacity * 1000)

\* an inter-array cost with a rebate that grows with the capacity
iac_cost_plh_rebate(distance, capacity) ==
    Times11Over10(distance * 1500 - capacity * 400000)

iac_cost_plh(distance, capacity) ==
    Times11Over10(distance * 1500 + capacity * 400)

ec_cost_plh(distance, capacity) ==
    Times11Over10(distance * 2000 + capacity * 500)

onss_cost_plh_unclamped(capacity, threshold) == (capacity - threshold) * 1000

onss_cost_plh(capacity, threshold) ==
    LET cost_function == (capacity - threshold) * 1000
    IN (cost_function + Abs(cost_function)) \div 2

\* the Expression components of the model, evaluated at a point p of the
\* variables (a record with one function per Var)
wf_cost_exp(p, wf) == wf_cost.val[wf] * p.wf_bool_var[wf]

iac_dist_exp(wf, oss) ==
    haversine(wf_lon.val[wf], wf_lat.val[wf], oss_lon.val[oss], oss_lat.val[oss])

iac_cost_exp(p, wf, oss) ==
    iac_cost_plh(iac_dist_exp(wf, oss), p.iac_cap_var[<<wf, oss>>])

oss_cost_exp(p, oss) ==
    oss_cost_plh(oss_wdepth.val[oss], oss_icover.val[oss], oss_pdist.val[oss],
                 p.oss_cap_var[oss])

ec_dist_exp(oss, onss) ==
    haversine(oss_lon.val[oss], oss_lat.val[oss], onss_lon.val[onss], onss_lat.val[onss])

ec_cost_exp(p, oss, onss) ==
    ec_cost_plh(ec_dist_exp(oss, onss), p.ec_cap_var[<<oss, onss>>])

onss_cost_exp(p, onss) == onss_cost_plh(p.onss_cap_var[onss], onss_thold.val[onss])

global_cost_rule(p) ==
    LET wf_total_cost == SumOver(viable_wf_ids, [wf \in viable_wf_ids |-> wf_cost_exp(p, wf)])
        oss_total_cost == SumOver(viable_oss_ids, [oss \in viable_oss_ids |-> oss_cost_exp(p, oss)])
        onss_total_costs == SumOver(viable_onss_ids,
                                    [onss \in viable_onss_ids |-> onss_cost_exp(p, onss)])
        iac_total_cost == SumOver(viable_iac_ids,
                                  [e \in viable_iac_ids |-> iac_cost_exp(p, e[1], e[2])])
        ec_total_cost == SumOver(viable_ec_ids,
                                 [e \in viable_ec_ids |-> ec_cost_exp(p, e[1], e[2])])
    IN wf_total_cost + oss_total_cost + iac_total_cost + ec_total_cost + onss_total_costs

(* ------------------------------ constraints -------------------------- *)
tot_wf_cap_rule(p) ==
    LET min_req_cap == MinCapFraction *
                       SumOver(viable_wf_ids, [wf \in viable_wf_ids |-> wf_cap.val[wf]])
    IN SumOver(viable_wf_ids,
               [wf \in viable_wf_ids |-> p.wf_bool_var[wf] * wf_cap.val[wf]]) >= min_req_cap

iac_cap_connect_rule(p, wf) ==
    LET to == {oss \in viable_oss_ids : <<wf, oss>> \in viable_iac_ids}
        connect_to_oss == SumOver(to, [oss \in to |-> p.iac_cap_var[<<wf, oss>>]])
    IN connect_to_oss >= p.wf_bool_var[wf] * wf_cap.val[wf]

\* oss_cap_connect_rule with the inequality turned round
oss_cap_connect_rule_reversed(p, oss) ==
    LET from == {wf \in viable_wf_ids : <<wf, oss>> \in viable_iac_ids}
        connect_from_wf == SumOver(from, [wf \in from |-> p.iac_cap_var[<<wf, oss>>]])
    IN connect_from_wf >= p.oss_cap_var[oss]

oss_cap_connect_rule(p, oss) ==
    LET from == {wf \in viable_wf_ids : <<wf, oss>> \in viable_iac_ids}
        connect_from_wf == SumOver(from, [wf \in from |-> p.iac_cap_var[<<wf, oss>>]])
    IN p.oss_cap_var[oss] >= connect_from_wf

\* the onshore index of the sum ranges over viable_oss_ids, as in line 797
ec_cap_connect_terms(oss) ==
    {onss \in viable_oss_ids : <<oss, onss>> \in viable_ec_ids}

ec_cap_connect_rule(p, oss) ==
    LET to == ec_cap_connect_terms(oss)
        connect_to_onss == SumOver(to, [onss \in to |-> p.ec_cap_var[<<oss, onss>>]])
    IN connect_to_onss >= p.oss_cap_var[oss]

onss_cap_connect_rule(p, onss) ==
    LET from == {oss \in viable_oss_ids : <<oss, onss>> \in viable_ec_ids}
        connect_from_oss == SumOver(from, [oss \in from |-> p.ec_cap_var[<<oss, onss>>]])
    IN p.onss_cap_var[onss] >= connect_from_oss

\* p satisfies every constraint whose component is named in act
Satisfies(p, act) ==
    /\ "tot_wf_cap_con" \in act => tot_wf_cap_rule(p)
    /\ "iac_cap_connect_con" \in act => \A wf \in viable_wf_ids : iac_cap_connect_rule(p, wf)
    /\ "oss_cap_connect_con" \in act => \A oss \in viable_oss_ids : oss_cap_connect_rule(p, oss)
    /\ "ec_cap_connect_con" \in act => \A oss \in viable_oss_ids : ec_cap_connect_rule(p, oss)
    /\ "onss_cap_connect_con" \in act =>
           \A onss \in viable_onss_ids : onss_cap_connect_rule(p, onss)

(* -------------------------------- solver ----------------------------- *)
Binary == {0, 1}
\* NonNegativeReals, sampled: the totals that wind farm capacities of the
\* dataset add up to, and the onshore thresholds (with wind farms of
\* capacity 1 these are the whole numbers up to CapTop)
CapRange ==
    {SumOver(T, [wf \in T |-> wf_cap.val[wf]]) : T \in SUBSET Range(wf_ids)}
        \cup {onss_thold.val[onss] : onss \in Range(onss_ids)}

\* the point the model holds
CurrentPoint ==
    [wf_bool_var |-> wf_bool_var, oss_cap_var |-> oss_cap_var, onss_cap_var |-> onss_cap_var,
     iac_cap_var |-> iac_cap_var, ec_cap_var |-> ec_cap_var]

\* the assignments of one Var: a fixed index keeps its value, a free one
\* ranges over dom
Assignments(cur, fixedIdx, dom) ==
    {[i \in DOMAIN cur |-> IF i \in fixedIdx THEN cur[i] ELSE g[i]] :
        g \in [DOMAIN cur \ fixedIdx -> dom]}

\* per Var, the assignments the solver may make: fixed variables are
\* constants to it
Ranges(fx, dom) ==
    [wf_bool_var |-> Assignments(wf_bool_var, fx.wf_bool_var, Binary),
     oss_cap_var |-> Assignments(oss_cap_var, fx.oss_cap_var, dom),
     onss_cap_var |-> Assignments(onss_cap_var, fx.onss_cap_var, dom),
     iac_cap_var |-> Assignments(iac_cap_var, fx.iac_cap_var, dom),
     ec_cap_var |-> Assignments(ec_cap_var, fx.ec_cap_var, dom)]

\* some fixed variable never received a value: the problem cannot be written
Unwritable(fx) ==
    \/ \E i \in fx.wf_bool_var : wf_bool_var[i] = NoValue
    \/ \E i \in fx.oss_cap_var : oss_cap_var[i] = NoValue
    \/ \E i \in fx.onss_cap_var : onss_cap_var[i] = NoValue
    \/ \E i \in fx.iac_cap_var : iac_cap_var[i] = NoValue
    \/ \E i \in fx.ec_cap_var : ec_cap_var[i] = NoValue

\* constraints 1-3 read the wind farm, inter-array and offshore Vars only
UpstreamCons == {"tot_wf_cap_con", "iac_cap_connect_con", "oss_cap_connect_con"}

\* the points of Ranges(fx, CapRange) that satisfy the constraints in act,
\* enumerated upstream Vars first so that a violated upstream constraint
\* prunes the rest
FeasiblePoints(act, fx) ==
    IF Unwritable(fx) THEN {}
    ELSE LET P == Ranges(fx, CapRange)
             Up == {u \in [wf_bool_var : P.wf_bool_var, iac_cap_var : P.iac_cap_var,
                           oss_cap_var : P.oss_cap_var] :
                        Satisfies(u, act \cap UpstreamCons)}
         IN UNION {{p \in [wf_bool_var : {u.wf_bool_var}, iac_cap_var : {u.iac_cap_var},
                           oss_cap_var : {u.oss_cap_var}, ec_cap_var : P.ec_cap_var,
                           onss_cap_var : P.onss_cap_var] :
                        Satisfies(p, act \ UpstreamCons)} : u \in Up}

\* the points an ok-optimal return may load: the feasible points of least
\* objective value
OptimalPoints(act, fx) ==
    LET F == FeasiblePoints(act, fx)
        costs == {global_cost_rule(p) : p \in F}
        least == CHOOSE c \in costs : \A d \in costs : c <= d
    IN {p \in F : global_cost_rule(p) = least}

\* what a solve reports: results.solver.status and .termination_condition
OkOptimal == [status |-> "ok", termination_condition |-> "optimal"]
OkInfeasible == [status |-> "ok", termination_condition |-> "infeasible"]
OkUnbounded == [status |-> "ok", termination_condition |-> "unbounded"]
OkOther == [status |-> "ok", termination_condition |-> "other"]
StatusError == [status |-> "error", termination_condition |-> "error"]
StatusWarning == [status |-> "warning", termination_condition |-> "other"]
StatusUnknown == [status |-> "unknown", termination_condition |-> "unknown"]

\* returns the contract says nothing about (the value ranges are cut at
\* CapTop, so the model does not decide which problems are unbounded)
UnconstrainedOutcomes == {OkUnbounded, OkOther, StatusError, StatusWarning, StatusUnknown}

\* the free indices of cur all set to v
Uniform(cur, fixedIdx, v) ==
    [i \in DOMAIN cur |-> IF i \in fixedIdx THEN cur[i] ELSE v]

\* values a return with warnings may have loaded: they need not satisfy any
\* constraint.  Sampled: each Var has all its free indices at the bottom or
\* all at the top of its range, the five Vars independently.
UnreliablePoints(fx) ==
    {[wf_bool_var |-> Uniform(wf_bool_var, fx.wf_bool_var, b[1]),
      oss_cap_var |-> Uniform(oss_cap_var, fx.oss_cap_var, b[2] * CapTop),
      onss_cap_var |-> Uniform(onss_cap_var, fx.onss_cap_var, b[3] * CapTop),
      iac_cap_var |-> Uniform(iac_cap_var, fx.iac_cap_var, b[4] * CapTop),
      ec_cap_var |-> Uniform(ec_cap_var, fx.ec_cap_var, b[5] * CapTop)] :
        b \in [1..5 -> Binary]}

\* solver.solve(model): the pairs <<results, point the model then holds>>
Solve(act, fx) ==
    LET F == FeasiblePoints(act, fx)
    IN {<<OkOptimal, p>> : p \in OptimalPoints(act, fx)}
       \cup (IF F = {} THEN {<<OkInfeasible, CurrentPoint>>} ELSE {})
       \cup {<<o, CurrentPoint>> : o \in UnconstrainedOutcomes}
       \cup {<<StatusWarning, p>> : p \in UnreliablePoints(fx)}

\* load a point into the Vars
Load(p) ==
    /\ wf_bool_var' = p.wf_bool_var
    /\ oss_cap_var' = p.oss_cap_var
    /\ onss_cap_var' = p.onss_cap_var
    /\ iac_cap_var' = p.iac_cap_var
    /\ ec_cap_var' = p.ec_cap_var

(* ------------------------ staged solver orchestrator ----------------- *)
\* Stage 1 that deactivates the export connection constraint as well
Stage1Deactivate_first_three ==
    /\ pc = "stage1"
    /\ active' = active \ {"ec_cap_connect_con", "onss_cap_connect_con"}
    /\ pc' = "stage1_solve"
    /\ UNCHANGED <<tools, datasets, graph, values, fixed, results_stage1, results,
                   solver_log, result_files, report>>

\* line 963
Stage1Deactivate ==
    /\ pc = "stage1"
    /\ active' = active \ {"onss_cap_connect_con"}
    /\ pc' = "stage1_solve"
    /\ UNCHANGED <<tools, datasets, graph, values, fixed, results_stage1, results,
                   solver_log, result_files, report>>

\* line 965
Stage1Solve ==
    /\ pc = "stage1_solve"
    /\ \E r \in Solve(active, fixed) :
          /\ results_stage1' = r[1]
          /\ Load(r[2])
    /\ solver_log' = Append(solver_log, [stage |-> 1, active |-> active])
    /\ pc' = "fix"
    /\ UNCHANGED <<tools, datasets, graph, fixed, active, results, result_files, report>>

\* a freezing of every variable, export and onshore capacities included
FixVariables_all ==
    /\ pc = "fix"
    /\ fixed' = [wf_bool_var |-> DOMAIN wf_bool_var,
                 oss_cap_var |-> DOMAIN oss_cap_var,
                 onss_cap_var |-> DOMAIN onss_cap_var,
                 iac_cap_var |-> DOMAIN iac_cap_var,
                 ec_cap_var |-> DOMAIN ec_cap_var]
    /\ pc' = "switch"
    /\ UNCHANGED <<tools, datasets, graph, values, active, results_stage1, results,
                   solver_log, result_files, report>>

\* the freezing without the loop over oss_cap_var
FixVariables_without_oss ==
    /\ pc = "fix"
    /\ fixed' = [fixed EXCEPT !.wf_bool_var = DOMAIN wf_bool_var,
                              !.iac_cap_var = DOMAIN iac_cap_var]
    /\ pc' = "switch"
    /\ UNCHANGED <<tools, datasets, graph, values, active, results_stage1, results,
                   solver_log, result_files, report>>

\* lines 969-976
FixVariables ==
    /\ pc = "fix"
    /\ fixed' = [fixed EXCEPT !.wf_bool_var = DOMAIN wf_bool_var,
                              !.oss_cap_var = DOMAIN oss_cap_var,
                              !.iac_cap_var = DOMAIN iac_cap_var]
    /\ pc' = "switch"
    /\ UNCHANGED <<tools, datasets, graph, values, active, results_stage1, results,
                   solver_log, result_files, report>>

\* the switch without the deactivation of tot_wf_cap_con
Stage2Switch_keeps_tot ==
    /\ pc = "switch"
    /\ active' = (active \ {"iac_cap_connect_con", "oss_cap_connect_con"})
                     \cup {"ec_cap_connect_con", "onss_cap_connect_con"}
    /\ pc' = "stage2_solve"
    /\ UNCHANGED <<tools, datasets, graph, values, fixed, results_stage1, results,
                   solver_log, result_files, report>>

\* lines 980-984
Stage2Switch ==
    /\ pc = "switch"
    /\ active' = (active \ {"tot_wf_cap_con", "iac_cap_connect_con", "oss_cap_connect_con"})
                     \cup {"ec_cap_connect_con", "onss_cap_connect_con"}
    /\ pc' = "stage2_solve"
    /\ UNCHANGED <<tools, datasets, graph, values, fixed, results_stage1, results,
                   solver_log, result_files, report>>

\* line 987, the problem can be written
Stage2Solve ==
    /\ pc = "stage2_solve"
    /\ ~Unwritable(fixed)
    /\ \E r \in Solve(active, fixed) :
          /\ results' = r[1]
          /\ Load(r[2])
    /\ solver_log' = Append(solver_log, [stage |-> 2, active |-> active])
    /\ pc' = "check"
    /\ UNCHANGED <<tools, datasets, graph, fixed, active, results_stage1, result_files, report>>

\* line 987, a fixed variable has no value: writing the problem raises and
\* the exception leaves opt_model
Stage2Raise ==
    /\ pc = "stage2_solve"
    /\ Unwritable(fixed)
    /\ solver_log' = Append(solver_log, [stage |-> 2, active |-> active])
    /\ pc' = "raised"
    /\ UNCHANGED <<tools, datasets, graph, values, fixed, active, results_stage1, results,
                   result_files, report>>

(* ---------------------------- result extractor ----------------------- *)
\* values are whole numbers here, which round() returns as they are
round(x) == x
exp_f(e) == round(e)
var_f(v) == round(v)

int_to_iso_mp == [i \in 1..8 |-> <<"DE", "DK", "EE", "FI", "LV", "LT", "PL", "SE">>[i]]

\* save_results with `>= 0` for `> 0` in the offshore substation filter
save_results_nonneg_oss(p) ==
    [wf_ids |->
        {[id |-> wf, iso |-> int_to_iso_mp[wf_iso.val[wf]], lon |-> wf_lon.val[wf],
          lat |-> wf_lat.val[wf], capacity |-> wf_cap.val[wf], cost |-> wf_cost.val[wf]] :
            wf \in {w \in viable_wf_ids : p.wf_bool_var[w] > 0}},
     oss_ids |->
        {[id |-> oss, iso |-> int_to_iso_mp[oss_iso.val[oss]], lon |-> oss_lon.val[oss],
          lat |-> oss_lat.val[oss], water_depth |-> oss_wdepth.val[oss],
          ice_cover |-> oss_icover.val[oss], port_dist |-> oss_pdist.val[oss],
          capacity |-> var_f(p.oss_cap_var[oss]), cost |-> exp_f(oss_cost_exp(p, oss))] :
            oss \in {o \in viable_oss_ids : p.oss_cap_var[o] >= 0}},
     onss_ids |->
        {[id |-> onss, iso |-> int_to_iso_mp[onss_iso.val[onss]], lon |-> onss_lon.val[onss],
          lat |-> onss_lat.val[onss], threshold |-> onss_thold.val[onss],
          capacity |-> var_f(p.onss_cap_var[onss]), cost |-> exp_f(onss_cost_exp(p, onss))] :
            onss \in {o \in viable_onss_ids : p.onss_cap_var[o] > 0}},
     iac_ids |->
        {[wf_id |-> e[1], oss_id |-> e[2], wf_lon |-> wf_lon.val[e[1]],
          wf_lat |-> wf_lat.val[e[1]], oss_lon |-> oss_lon.val[e[2]],
          oss_lat |-> oss_lat.val[e[2]], capacity |-> var_f(p.iac_cap_var[e]),
          cost |-> exp_f(iac_cost_exp(p, e[1], e[2]))] :
            e \in {x \in viable_iac_ids : p.iac_cap_var[x] > 0}},
     ec_ids |->
        {[oss_id |-> e[1], onss_id |-> e[2], oss_lon |-> oss_lon.val[e[1]],
          oss_lat |-> oss_lat.val[e[1]], onss_lon |-> onss_lon.val[e[2]],
          onss_lat |-> onss_lat.val[e[2]], capacity |-> var_f(p.ec_cap_var[e]),
          cost |-> exp_f(ec_cost_exp(p, e[1], e[2]))] :
            e \in {x \in viable_ec_ids : p.ec_cap_var[x] > 0}}]

\* selected_components: the five collections, one record per index whose
\* value is > 0
save_results(p) ==
    [wf_ids |->
        {[id |-> wf, iso |-> int_to_iso_mp[wf_iso.val[wf]], lon |-> wf_lon.val[wf],
          lat |-> wf_lat.val[wf], capacity |-> wf_cap.val[wf], cost |-> wf_cost.val[wf]] :
            wf \in {w \in viable_wf_ids : p.wf_bool_var[w] > 0}},
     oss_ids |->
        {[id |-> oss, iso |-> int_to_iso_mp[oss_iso.val[oss]], lon |-> oss_lon.val[oss],
          lat |-> oss_lat.val[oss], water_depth |-> oss_wdepth.val[oss],
          ice_cover |-> oss_icover.val[oss], port_dist |-> oss_pdist.val[oss],
          capacity |-> var_f(p.oss_cap_var[oss]), cost |-> exp_f(oss_cost_exp(p, oss))] :
            oss \in {o \in viable_oss_ids : p.oss_cap_var[o] > 0}},
     onss_ids |->
        {[id |-> onss, iso |-> int_to_iso_mp[onss_iso.val[onss]], lon |-> onss_lon.val[onss],
          lat |-> onss_lat.val[onss], threshold |-> onss_thold.val[onss],
          capacity |-> var_f(p.onss_cap_var[onss]), cost |-> exp_f(onss_cost_exp(p, onss))] :
            onss \in {o \in viable_onss_ids : p.onss_cap_var[o] > 0}},
     iac_ids |->
        {[wf_id |-> e[1], oss_id |-> e[2], wf_lon |-> wf_lon.val[e[1]],
          wf_lat |-> wf_lat.val[e[1]], oss_lon |-> oss_lon.val[e[2]],
          oss_lat |-> oss_lat.val[e[2]], capacity |-> var_f(p.iac_cap_var[e]),
          cost |-> exp_f(iac_cost_exp(p, e[1], e[2]))] :
            e \in {x \in viable_iac_ids : p.iac_cap_var[x] > 0}},
     ec_ids |->
        {[oss_id |-> e[1], onss_id |-> e[2], oss_lon |-> oss_lon.val[e[1]],
          oss_lat |-> oss_lat.val[e[1]], onss_lon |-> onss_lon.val[e[2]],
          onss_lat |-> onss_lat.val[e[2]], capacity |-> var_f(p.ec_cap_var[e]),
          cost |-> exp_f(ec_cost_exp(p, e[1], e[2]))] :
            e \in {x \in viable_ec_ids : p.ec_cap_var[x] > 0}}]

\* lines 991-994: status ok and termination condition optimal
\* an extraction that prunes the unused connections from the model
SaveResults_prunes_edges ==
    /\ pc = "check"
    /\ results.status = "ok"
    /\ results.termination_condition = "optimal"
    /\ report' = "Solver found an optimal solution."
    /\ result_files' = save_results(CurrentPoint)
    /\ viable_iac' = SelectSeq(viable_iac, LAMBDA e : iac_cap_var[e] > 0)
    /\ pc' = "done"
    /\ UNCHANGED <<tools, datasets, viable_ec, viable_wf_ids, viable_oss_ids,
                   viable_onss_ids, values, fixed, active, results_stage1,
                   results, solver_log>>

SaveResults ==
    /\ pc = "check"
    /\ results.status = "ok"
    /\ results.termination_condition = "optimal"
    /\ report' = "Solver found an optimal solution."
    /\ result_files' = save_results(CurrentPoint)
    /\ pc' = "done"
    /\ UNCHANGED <<tools, datasets, graph, values, fixed, active, results_stage1, results,
                   solver_log>>

\* lines 995-1006: the message printed for every other return
status_message(res) ==
    IF res.status = "ok" THEN
        IF res.termination_condition = "infeasible"
            THEN "Problem is infeasible. Check model constraints and data."
        ELSE IF res.termination_condition = "unbounded"
            THEN "Problem is unbounded. Check objective function and constraints."
        ELSE "Solver terminated with condition."
    ELSE IF res.status = "error"
        THEN "Solver error occurred. Check solver log for more details."
    ELSE IF res.status = "warning"
        THEN "Solver finished with warnings. Results may not be reliable."
    ELSE "Unexpected solver status. Check solver log for details."

\* a report that sends a failed run back to the Stage 2 solve
ReportStatus_retry ==
    /\ pc = "check"
    /\ ~(results.status = "ok" /\ results.termination_condition = "optimal")
    /\ report' = status_message(results)
    /\ pc' = "stage2_solve"
    /\ UNCHANGED <<tools, datasets, graph, values, fixed, active, results_stage1, results,
                   solver_log, result_files>>

ReportStatus ==
    /\ pc = "check"
    /\ ~(results.status = "ok" /\ results.termination_condition = "optimal")
    /\ report' = status_message(results)
    /\ pc' = "done"
    /\ UNCHANGED <<tools, datasets, graph, values, fixed, active, results_stage1, results,
                   solver_log, result_files>>

Next ==
    \/ DefineModel
    \/ DefineModelRaise
    \/ Stage1Deactivate
    \/ Stage1Solve
    \/ FixVariables
    \/ Stage2Switch
    \/ Stage2Solve
    \/ Stage2Raise
    \/ SaveResults
    \/ ReportStatus

Spec == Init /\ [][Next]_vars

(* ------------------------- observations of a run --------------------- *)
\* the call of line 987 has been made
Stage2Invoked == \E i \in 1..Len(solver_log) : solver_log[i].stage = 2

\* save_results has written its files
FilesWritten == DOMAIN result_files # {}

\* both solves returned status ok with termination condition optimal
BothStagesOptimal == results_stage1 = OkOptimal /\ results = OkOptimal

(* ===================================================================== *)
(* Stage gating                                                          *)
(* ===================================================================== *)

\* C1: the Stage 2 solve is invoked only if the Stage 1 solve returned status
\* ok with termination condition optimal; when Stage 1 returned infeasible
\* there is no Stage 2 invocation and no result file is written.
C1_Stage2OnlyAfterOptimalStage1 ==
    /\ Stage2Invoked => results_stage1 = OkOptimal
    /\ results_stage1.termination_condition = "infeasible" =>
           ~Stage2Invoked /\ ~FilesWritten

\* C2: save_results is called only if both solves returned status ok with
\* termination condition optimal.
C2_SaveOnlyIfBothOptimal ==
    FilesWritten => BothStagesOptimal

(* ===================================================================== *)
(* Feasibility graph                                                     *)
(* ===================================================================== *)

\* C3: find_viable_iac returns a (wind farm, offshore substation) pair exactly
\* when the two are at most 150 km apart and carry the same country code, and
\* find_viable_ec returns an (offshore, onshore) pair exactly when the two are
\* at most 300 km apart and carry the same country code; a pair at exactly
\* the threshold distance is accepted.
C3_ViableConnections ==
    pc # "define" =>
        /\ viable_iac_ids =
              {<<w.id, o.id>> : <<w, o>> \in
                  {pr \in Range(wf_dataset) \X Range(oss_dataset) :
                      Abs(pr[2].lat - pr[1].lat) <= 150 /\ pr[1].iso = pr[2].iso}}
        /\ viable_ec_ids =
              {<<o.id, n.id>> : <<o, n>> \in
                  {pr \in Range(oss_dataset) \X Range(onss_dataset) :
                      Abs(pr[2].lat - pr[1].lat) <= 300 /\ pr[1].iso = pr[2].iso}}

\* C3 happens: one run has an inter-array pair at exactly 150 km and an export
\* pair at exactly 300 km, both accepted, a pair at 151 km and a pair within
\* range but of two countries, both rejected
C3_Witness ==
    /\ pc # "define"
    /\ \E w \in Range(wf_dataset), o \in Range(oss_dataset) :
          Abs(o.lat - w.lat) = 150 /\ <<w.id, o.id>> \in viable_iac_ids
    /\ \E o \in Range(oss_dataset), n \in Range(onss_dataset) :
          Abs(n.lat - o.lat) = 300 /\ <<o.id, n.id>> \in viable_ec_ids
    /\ \E w \in Range(wf_dataset), o \in Range(oss_dataset) :
          Abs(o.lat - w.lat) = 151 /\ w.iso = o.iso /\ <<w.id, o.id>> \notin viable_iac_ids
    /\ \E w \in Range(wf_dataset), o \in Range(oss_dataset) :
          Abs(o.lat - w.lat) <= 150 /\ w.iso # o.iso /\ <<w.id, o.id>> \notin viable_iac_ids

\* the endpoints of the feasible connections, read off the two lists
IacWfEnds == {e[1] : e \in viable_iac_ids}
IacOssEnds == {e[2] : e \in viable_iac_ids}
EcOssEnds == {e[1] : e \in viable_ec_ids}
EcOnssEnds == {e[2] : e \in viable_ec_ids}

\* C4: get_viable_entities returns the union of the endpoints of the feasible
\* edges, and the decision variables are declared over exactly these: an
\* entity that is an endpoint of no feasible edge has no variable, every
\* entity that is an endpoint of a feasible edge has one.
C4_ViableEntities ==
    pc # "define" =>
        /\ viable_wf_ids = IacWfEnds
        /\ viable_oss_ids = IacOssEnds \cup EcOssEnds
        /\ viable_onss_ids = EcOnssEnds
        /\ DOMAIN wf_bool_var = IacWfEnds
        /\ DOMAIN oss_cap_var = IacOssEnds \cup EcOssEnds
        /\ DOMAIN onss_cap_var = EcOnssEnds
        /\ DOMAIN iac_cap_var = viable_iac_ids
        /\ DOMAIN ec_cap_var = viable_ec_ids

\* C4 happens: a wind farm without feasible edge has no variable while another
\* has one, and an offshore substation has a variable through an export edge
\* alone
C4_Witness ==
    /\ pc # "define"
    /\ \E w \in Range(wf_dataset) : w.id \notin DOMAIN wf_bool_var
    /\ \E w \in Range(wf_dataset) : w.id \in DOMAIN wf_bool_var
    /\ \E o \in Range(oss_dataset) :
          o.id \in DOMAIN oss_cap_var /\ o.id \in EcOssEnds \ IacOssEnds

(* ===================================================================== *)
(* Staged activation                                                     *)
(* ===================================================================== *)

\* the solver.solve calls of one stage, as logged
CallsOfStage(n) == {i \in 1..Len(solver_log) : solver_log[i].stage = n}

\* C5 (as stated): during the Stage 1 solve the active constraint set is
\* exactly constraints 1-3 (total wind farm capacity, inter-array connection,
\* offshore substation capacity); the export connection constraint and the
\* onshore capacity constraint are deactivated.
C5_Stage1ActiveFirstThree ==
    /\ pc = "stage1_solve" =>
           active = {"tot_wf_cap_con", "iac_cap_connect_con", "oss_cap_connect_con"}
    /\ \A i \in CallsOfStage(1) :
           solver_log[i].active =
               {"tot_wf_cap_con", "iac_cap_connect_con", "oss_cap_connect_con"}

\* C5 (amended): during the Stage 1 solve the active constraint set is exactly
\* constraints 1-4 (total wind farm capacity, inter-array connection, offshore
\* substation capacity, export connection); only the onshore capacity
\* constraint is deactivated.
C5_Stage1ActiveFirstFour ==
    /\ pc = "stage1_solve" =>
           active = {"tot_wf_cap_con", "iac_cap_connect_con", "oss_cap_connect_con",
                     "ec_cap_connect_con"}
    /\ \A i \in CallsOfStage(1) :
           solver_log[i].active =
               {"tot_wf_cap_con", "iac_cap_connect_con", "oss_cap_connect_con",
                "ec_cap_connect_con"}

\* C5 happens: the Stage 1 solve has run, and returned an optimum
C5_Witness ==
    CallsOfStage(1) # {} /\ results_stage1 = OkOptimal

\* the three Stage 1 Vars are fixed at every index
UpstreamFixed ==
    /\ fixed.wf_bool_var = DOMAIN wf_bool_var
    /\ fixed.oss_cap_var = DOMAIN oss_cap_var
    /\ fixed.iac_cap_var = DOMAIN iac_cap_var

C7_Stage1ValuesFrozen ==
    /\ [](results_stage1 = OkOptimal /\ pc \in {"switch", "stage2_solve", "check", "done"}
            => UpstreamFixed)
    /\ [][results_stage1 = OkOptimal /\ pc \in {"fix", "switch", "stage2_solve", "check"}
            => /\ wf_bool_var' = wf_bool_var
               /\ oss_cap_var' = oss_cap_var
               /\ iac_cap_var' = iac_cap_var]_vars

\* C7 happens: both solves succeeded, results were extracted, and Stage 2 had
\* capacity to place downstream of a Stage 1 capacity
C7_Witness ==
    /\ FilesWritten
    /\ BothStagesOptimal
    /\ \E oss \in viable_oss_ids : oss_cap_var[oss] > 0
    /\ \E onss \in viable_onss_ids : onss_cap_var[onss] > 0

(* ===================================================================== *)
(* Capacity balance                                                      *)
(* ===================================================================== *)

\* the feasible edges that end in, or leave, one entity
IacInto(oss) == {e \in viable_iac_ids : e[2] = oss}
EcOutOf(oss) == {e \in viable_ec_ids : e[1] = oss}
EcInto(onss) == {e \in viable_ec_ids : e[2] = onss}

\* the capacity the held point puts on a set of edges
IacTotal(E) == SumOver(E, [e \in E |-> iac_cap_var[e]])
EcTotal(E) == SumOver(E, [e \in E |-> ec_cap_var[e]])

\* C8: after a two-stage solve in which both stages succeeded and results are
\* extracted, every offshore substation's capacity is at least the sum of the
\* capacities of the inter-array edges into it (constraint 3), and every
\* onshore substation's capacity is at least the sum of the capacities of the
\* export edges into it (constraint 5).
C8_SubstationsCoverInflow ==
    FilesWritten /\ BothStagesOptimal =>
        /\ \A oss \in viable_oss_ids : oss_cap_var[oss] >= IacTotal(IacInto(oss))
        /\ \A onss \in viable_onss_ids : onss_cap_var[onss] >= EcTotal(EcInto(onss))

\* C8 happens: results are extracted after two optimal solves, with an
\* offshore substation fed by two inter-array edges and an onshore substation
\* fed by an export edge, the inflows positive
C8_Witness ==
    /\ FilesWritten
    /\ BothStagesOptimal
    /\ \E oss \in viable_oss_ids :
          Cardinality(IacInto(oss)) = 2 /\ IacTotal(IacInto(oss)) >= 2
    /\ \E onss \in viable_onss_ids : EcTotal(EcInto(onss)) > 0

\* C9: in every accepted final solution, for each viable offshore substation
\* the sum of the capacities of all feasible export edges leaving it is at
\* least its capacity; and the constraint built by ec_cap_connect_rule sums
\* over exactly the feasible export edges of that offshore substation.
C9_ExportBalance ==
    /\ FilesWritten =>
           \A oss \in viable_oss_ids : EcTotal(EcOutOf(oss)) >= oss_cap_var[oss]
    /\ "ec_cap_connect_con" \in active =>
           \A oss \in viable_oss_ids :
               {<<oss, onss>> : onss \in ec_cap_connect_terms(oss)} = EcOutOf(oss)

\* C10: in every solution for which results are extracted, the selected wind
\* farms' capacities sum to at least 100% of the total capacity of the viable
\* wind farms; capacities being positive, every viable wind farm is selected.
C10_AllViableWindFarmsSelected ==
    FilesWritten =>
        /\ SumOver(viable_wf_ids,
                   [wf \in viable_wf_ids |-> wf_bool_var[wf] * wf_cap.val[wf]])
             >= SumOver(viable_wf_ids, [wf \in viable_wf_ids |-> wf_cap.val[wf]])
        /\ (\A wf \in viable_wf_ids : wf_cap.val[wf] > 0) =>
               \A wf \in viable_wf_ids : wf_bool_var[wf] = 1

(* ===================================================================== *)
(* Scenarios                                                             *)
(* ===================================================================== *)

\* the datasets of the scenario: wind farms of 500 and 300 MW, one offshore
\* substation within 150 km of both, one onshore substation within 300 km of
\* it, one country; the substations' ids and the onshore threshold vary
ScenarioWfDataset ==
    <<[id |-> 1, iso |-> 1, lon |-> 0, lat |-> 0, cap |-> 500, cost |-> 100],
      [id |-> 2, iso |-> 1, lon |-> 0, lat |-> 0, cap |-> 300, cost |-> 100]>>
ScenarioOssRows ==
    [id : 1..3, iso : {1}, lon : {0}, lat : {100, 150},
     wdepth : OssWdepths, icover : OssIcovers, pdist : OssPdists]
ScenarioOnssRows ==
    [id : 1..3, iso : {1}, lon : {0}, lat : {400}, thold : {0, 800, 1000}]

ScenarioInit ==
    /\ wf_dataset = ScenarioWfDataset
    /\ oss_dataset \in RowsOf(1, 1..3, ScenarioOssRows)
    /\ onss_dataset \in RowsOf(1, 1..3, ScenarioOnssRows)
    /\ NothingBuilt
    /\ ToolsIdle

\* every scenario has a viable wind farm, so the model is always defined
ScenarioNext ==
    \/ DefineModel
    \/ Stage1Deactivate
    \/ Stage1Solve
    \/ FixVariables
    \/ Stage2Switch
    \/ Stage2Solve
    \/ Stage2Raise
    \/ SaveResults
    \/ ReportStatus

ScenarioSpec == ScenarioInit /\ [][ScenarioNext]_vars

\* opt_model has returned or raised
RunEnded == pc \in {"done", "raised"}

\* each solve made reported the truth about its problem: an optimum, or that
\* there is none because the problem is infeasible
SolverTruthful ==
    /\ results_stage1 \in {OkOptimal, OkInfeasible}
    /\ results \in {NoResults, OkOptimal, OkInfeasible}

\* C11: in the scenario (wind farms of 500 and 300, one offshore substation
\* within 150 km of both, one onshore substation within 300 km of it, one
\* country, any substation ids) the two-stage run ends with results extracted
\* in which both farms are selected and the offshore substation capacity, the
\* export edge capacity and the onshore substation capacity are 800.
C11_Scenario800 ==
    RunEnded /\ SolverTruthful =>
        /\ FilesWritten
        /\ {r.id : r \in result_files.wf_ids} = {1, 2}
        /\ \A r \in result_files.oss_ids : r.capacity = 800
        /\ Cardinality(result_files.oss_ids) = 1
        /\ \A r \in result_files.ec_ids : r.capacity = 800
        /\ Cardinality(result_files.ec_ids) = 1
        /\ \A r \in result_files.onss_ids : r.capacity = 800
        /\ Cardinality(result_files.onss_ids) = 1

\* C11, the scenario with the onshore id equal to the offshore id and the
\* threshold at most 800: the expected topology is extracted
C11_Expected ==
    /\ FilesWritten /\ BothStagesOptimal
    /\ \E o \in result_files.oss_ids, e \in result_files.ec_ids,
          n \in result_files.onss_ids :
          o.capacity = 800 /\ e.capacity = 800 /\ n.capacity = 800

\* the wind farms of the dataset with no offshore substation of their country
\* within 150 km
StrandedWindFarms ==
    {w.id : w \in {r \in Range(wf_dataset) :
                      ~\E o \in Range(oss_dataset) :
                          o.iso = r.iso /\ Abs(o.lat - r.lat) <= 150}}

\* C12: a wind farm with no offshore substation of the same country within
\* 150 km is excluded entirely: it has no selection variable, it is in none of
\* the index sets the objective and the minimum-aggregate-capacity constraint
\* sum over, and it never appears in the wind farm output collection nor as
\* an endpoint in the inter-array output collection.
C12_StrandedFarmExcluded ==
    pc # "define" =>
        \A wf \in StrandedWindFarms :
            /\ wf \notin DOMAIN wf_bool_var
            /\ wf \notin viable_wf_ids
            /\ \A e \in DOMAIN iac_cap_var \cup viable_iac_ids : e[1] # wf
            /\ FilesWritten =>
                   /\ \A r \in result_files.wf_ids : r.id # wf
                   /\ \A r \in result_files.iac_ids : r.wf_id # wf

\* C12 happens: results are extracted for a dataset with a stranded wind farm
\* next to a wind farm that is selected and connected
C12_Witness ==
    /\ FilesWritten
    /\ BothStagesOptimal
    /\ StrandedWindFarms # {}
    /\ result_files.wf_ids # {}
    /\ result_files.iac_ids # {}

(* ===================================================================== *)
(* Result extraction                                                     *)
(* ===================================================================== *)

\* C13: result extraction emits, for each of the five entity and edge types,
\* exactly one record per viable item whose solved value (selection or
\* capacity) is strictly positive, and no record for an item whose solved
\* value is zero.
C13_OneRecordPerPositiveItem ==
    FilesWritten =>
        LET wf_sel == {wf \in viable_wf_ids : wf_bool_var[wf] > 0}
            oss_sel == {oss \in viable_oss_ids : oss_cap_var[oss] > 0}
            onss_sel == {onss \in viable_onss_ids : onss_cap_var[onss] > 0}
            iac_sel == {e \in viable_iac_ids : iac_cap_var[e] > 0}
            ec_sel == {e \in viable_ec_ids : ec_cap_var[e] > 0}
        IN /\ {r.id : r \in result_files.wf_ids} = wf_sel
           /\ Cardinality(result_files.wf_ids) = Cardinality(wf_sel)
           /\ {r.id : r \in result_files.oss_ids} = oss_sel
           /\ Cardinality(result_files.oss_ids) = Cardinality(oss_sel)
           /\ {r.id : r \in result_files.onss_ids} = onss_sel
           /\ Cardinality(result_files.onss_ids) = Cardinality(onss_sel)
           /\ {<<r.wf_id, r.oss_id>> : r \in result_files.iac_ids} = iac_sel
           /\ Cardinality(result_files.iac_ids) = Cardinality(iac_sel)
           /\ {<<r.oss_id, r.onss_id>> : r \in result_files.ec_ids} = ec_sel
           /\ Cardinality(result_files.ec_ids) = Cardinality(ec_sel)

\* C13 happens: results are extracted from a solution that uses one offshore
\* substation and one inter-array edge and leaves another of each at zero
C13_Witness ==
    /\ FilesWritten
    /\ \E a, b \in viable_oss_ids : oss_cap_var[a] > 0 /\ oss_cap_var[b] = 0
    /\ \E e, f \in viable_iac_ids : iac_cap_var[e] > 0 /\ iac_cap_var[f] = 0
    /\ \E wf \in viable_wf_ids : wf_bool_var[wf] > 0
    /\ \E e \in viable_ec_ids : ec_cap_var[e] > 0

(* ------------------------- the delimited text files ------------------ *)
\* text is a sequence of characters; a country code is one token of it
DigitChars == <<"0", "1", "2", "3", "4", "5", "6", "7", "8", "9">>

RECURSIVE str_nat(_)
str_nat(n) ==
    IF n < 10 THEN <<DigitChars[n + 1]>>
    ELSE Append(str_nat(n \div 10), DigitChars[(n % 10) + 1])

\* str() of a field of dtype int
str_int(n) == IF n < 0 THEN <<"-">> \o str_nat(-n) ELSE str_nat(n)

\* str() of a field of dtype float holding a whole number: '150.0'
str_float(x) == str_int(x) \o <<".", "0">>

\* the dtype of each structured array: field names and kinds, in order
dtype ==
    [wf_ids |-> <<<<"id", "int">>, <<"iso", "U2">>, <<"lon", "float">>, <<"lat", "float">>,
                  <<"capacity", "int">>, <<"cost", "int">>>>,
     oss_ids |-> <<<<"id", "int">>, <<"iso", "U2">>, <<"lon", "float">>, <<"lat", "float">>,
                   <<"water_depth", "int">>, <<"ice_cover", "int">>, <<"port_dist", "int">>,
                   <<"capacity", "int">>, <<"cost", "int">>>>,
     onss_ids |-> <<<<"id", "int">>, <<"iso", "U2">>, <<"lon", "float">>, <<"lat", "float">>,
                    <<"threshold", "int">>, <<"capacity", "int">>, <<"cost", "int">>>>,
     iac_ids |-> <<<<"wf_id", "int">>, <<"oss_id", "int">>, <<"wf_lon", "float">>,
                   <<"wf_lat", "float">>, <<"oss_lon", "float">>, <<"oss_lat", "float">>,
                   <<"capacity", "int">>, <<"cost", "int">>>>,
     ec_ids |-> <<<<"oss_id", "int">>, <<"onss_id", "int">>, <<"oss_lon", "float">>,
                  <<"oss_lat", "float">>, <<"onss_lon", "float">>, <<"onss_lat", "float">>,
                  <<"capacity", "int">>, <<"cost", "int">>>>]

headers ==
    [wf_ids |-> "ID, ISO, Longitude, Latitude, Capacity, Cost",
     oss_ids |-> "ID, ISO, Longitude, Latitude, Water Depth, Ice Cover, Port Distance, Capacity, Cost",
     onss_ids |-> "ID, ISO, Longitude, Latitude, Threshold, Capacity, Cost",
     iac_ids |-> "WF_ID, OSS_ID, WFLongitude, WFLatitude, OSSLongitude, OSSLatitude, Capacity, Cost",
     ec_ids |-> "OSS_ID, ONSS_ID, OSSLongitude, OSSLatitude, ONSSLongitude, ONSSLatitude, Capacity, Cost"]

\* map(str, entry): one text per field of a record of collection key
str_fields(key, entry) ==
    [i \in 1..Len(dtype[key]) |->
        LET name == dtype[key][i][1]
            kind == dtype[key][i][2]
        IN IF kind = "int" THEN str_int(entry[name])
           ELSE IF kind = "float" THEN str_float(entry[name])
           ELSE <<entry[name]>>]

RECURSIVE join_nosep(_, _)
\* join without the separator
join_nosep(fields, i) ==
    IF i > Len(fields) THEN <<>>
    ELSE fields[i] \o join_nosep(fields, i + 1)

RECURSIVE join(_, _)
\* ', '.join(fields[i..])
join(fields, i) ==
    IF i > Len(fields) THEN <<>>
    ELSE IF i = Len(fields) THEN fields[i]
    ELSE fields[i] \o <<",", " ">> \o join(fields, i + 1)

RECURSIVE entries_of(_)
\* the records of a structured array, in an order
entries_of(data) ==
    IF data = {} THEN <<>>
    ELSE LET r == CHOOSE x \in data : TRUE
         IN <<r>> \o entries_of(data \ {r})

\* the lines of <key>_hs.txt: the headers, then one line per entry
txt_file(key) ==
    LET data == entries_of(result_files[key])
    IN <<<<headers[key]>>>> \o [i \in 1..Len(data) |-> join(str_fields(key, data[i]), 1)]

(* the reading side of the round trip: what a reader of the text files does *)
RECURSIVE split(_, _, _, _)
\* line.split(', '), from position i on, cur the field being read
split(line, i, cur, acc) ==
    IF i > Len(line) THEN Append(acc, cur)
    ELSE IF line[i] = "," /\ i < Len(line) /\ line[i + 1] = " "
         THEN split(line, i + 2, <<>>, Append(acc, cur))
    ELSE split(line, i + 1, Append(cur, line[i]), acc)

\* what int() and float() give for text that is no number
NotANumber == "ValueError"

\* the text is a decimal numeral
IsNumeral(chars) == chars # <<>> /\ Range(chars) \subseteq Range(DigitChars)

RECURSIVE parse_nat(_, _, _)
\* the value of the numeral chars[i..], acc the value read so far
parse_nat(chars, i, acc) ==
    IF i > Len(chars) THEN acc
    ELSE parse_nat(chars, i + 1,
                   acc * 10 + (CHOOSE k \in 0..9 : DigitChars[k + 1] = chars[i]))

\* int(text)
parse_int(chars) ==
    IF IsNumeral(chars) THEN parse_nat(chars, 1, 0)
    ELSE IF chars # <<>> /\ chars[1] = "-" /\ IsNumeral(Tail(chars))
         THEN 0 - parse_nat(Tail(chars), 1, 0)
    ELSE NotANumber

\* float(text) for text of a whole number: digits, a point, zeros
parse_float(chars) ==
    LET points == {i \in 1..Len(chars) : chars[i] = "."}
        at == CHOOSE i \in points : TRUE
    IN IF Cardinality(points) # 1 THEN NotANumber
       ELSE IF \E i \in (at + 1)..Len(chars) : chars[i] # "0" THEN NotANumber
       ELSE parse_int(SubSeq(chars, 1, at - 1))

\* one line of <key>_hs.txt read back: one value per field
parse_row(key, line) ==
    LET fields == split(line, 1, <<>>, <<>>)
    IN [i \in 1..Len(fields) |->
          IF i > Len(dtype[key]) THEN NotANumber
          ELSE IF dtype[key][i][2] = "int" THEN parse_int(fields[i])
          ELSE IF dtype[key][i][2] = "float" THEN parse_float(fields[i])
          ELSE IF Len(fields[i]) = 1 THEN fields[i][1] ELSE NotANumber]

\* the field values of a record of the binary structured array, in order
npy_row(key, entry) == [i \in 1..Len(dtype[key]) |-> entry[dtype[key][i][1]]]

\* C14: for every result collection, writing it as delimited text (a header
\* line, then one comma-separated line per record) and reading it back gives
\* as many records as the binary structured array holds and, per record, the
\* same field values; capacity and cost are written as whole numbers, with no
\* decimal point.
C14_TextRoundTrip ==
    FilesWritten =>
        \A key \in DOMAIN result_files :
            LET file == txt_file(key)
            IN /\ file[1] = <<headers[key]>>
               /\ Len(file) - 1 = Cardinality(result_files[key])
               /\ {parse_row(key, file[i]) : i \in 2..Len(file)} =
                      {npy_row(key, r) : r \in result_files[key]}
               /\ \A i \in 2..Len(file) :
                      LET fields == split(file[i], 1, <<>>, <<>>)
                      IN \A j \in 1..Len(dtype[key]) :
                            dtype[key][j][1] \in {"capacity", "cost"} =>
                                Range(fields[j]) \subseteq Range(DigitChars)

\* C14 happens: files are written with a collection of two records and with
\* costs of several digits
C14_Witness ==
    /\ FilesWritten
    /\ Cardinality(result_files.iac_ids) = 2
    /\ \E r \in result_files.oss_ids : r.capacity > 0 /\ r.cost > 1000
    /\ \E r \in result_files.ec_ids : r.oss_lat > 9

(* ===================================================================== *)
(* Feasibility graph, run again                                          *)
(* ===================================================================== *)

\* the orders in which n keys can be enumerated
Perms(n) == {f \in [1..n -> 1..n] : \A i, j \in 1..n : f[i] = f[j] => i = j}

\* the dictionary d with the same entries, enumerated in the order perm
Reorder(d, perm) == [keys |-> [i \in 1..Len(d.keys) |-> d.keys[perm[i]]], val |-> d.val]

\* the graph builder has just run (no later step changes its results)
GraphJustBuilt == pc = "stage1" \/ (pc = "raised" /\ solver_log = <<>>)

\* C15: running find_viable_iac, find_viable_ec and get_viable_entities again
\* on the same inputs, also with the input dictionaries enumerated in another
\* order, gives set-equal edge sets and set-equal viable node sets, and no
\* edge list holds a pair twice.
C15_GraphBuilderDeterministic ==
    GraphJustBuilt =>
        /\ find_viable_iac(wf_lon, wf_lat, oss_lon, oss_lat, wf_iso, oss_iso) = viable_iac
        /\ find_viable_ec(oss_lon, oss_lat, onss_lon, onss_lat, oss_iso, onss_iso) = viable_ec
        /\ \A pw \in Perms(Len(wf_lon.keys)), po \in Perms(Len(oss_lon.keys)),
              pn \in Perms(Len(onss_lon.keys)) :
              LET iac2 == find_viable_iac(Reorder(wf_lon, pw), wf_lat,
                                          Reorder(oss_lon, po), oss_lat, wf_iso, oss_iso)
                  ec2 == find_viable_ec(Reorder(oss_lon, po), oss_lat,
                                        Reorder(onss_lon, pn), onss_lat, oss_iso, onss_iso)
              IN /\ Range(iac2) = viable_iac_ids
                 /\ Range(ec2) = viable_ec_ids
                 /\ get_viable_entities(iac2, ec2) =
                        <<viable_wf_ids, viable_oss_ids, viable_onss_ids>>
                 /\ Len(iac2) = Cardinality(Range(iac2))
                 /\ Len(ec2) = Cardinality(Range(ec2))
        /\ Len(viable_iac) = Cardinality(viable_iac_ids)
        /\ Len(viable_ec) = Cardinality(viable_ec_ids)

\* C15 happens: another enumeration order gives the same edges as a different
\* list
C15_Witness ==
    /\ GraphJustBuilt
    /\ Len(viable_iac) >= 2
    /\ Len(viable_ec) >= 2
    /\ \E pw \in Perms(Len(wf_lon.keys)), po \in Perms(Len(oss_lon.keys)) :
          /\ find_viable_iac(Reorder(wf_lon, pw), wf_lat, Reorder(oss_lon, po), oss_lat,
                             wf_iso, oss_iso) # viable_iac
          /\ find_viable_ec(Reorder(oss_lon, po), oss_lat, onss_lon, onss_lat,
                            oss_iso, onss_iso) # viable_ec

(* ===================================================================== *)
(* Failure handling                                                      *)
(* ===================================================================== *)

\* C16: when a stage solve finishes with solver status warning (the other
\* stage being ok and optimal), result extraction is not blocked: the results
\* are extracted and the report says that they may not be reliable.
C16_WarningDoesNotBlockExtraction ==
    RunEnded /\ \/ results_stage1.status = "warning" /\ results = OkOptimal
                \/ results_stage1 = OkOptimal /\ results.status = "warning"
        => /\ FilesWritten
           /\ report = "Solver finished with warnings. Results may not be reliable."

\* C17: whenever a stage solve returns anything but ok and optimal, the run
\* is aborted at that stage (after Stage 1: no Stage 2 solve; after Stage 2:
\* no extraction) and the report emitted is the one for the status of that
\* stage; infeasible and unbounded have distinct reports.
C17_FailureAbortsAtItsStage ==
    /\ results_stage1 \notin {NoResults, OkOptimal} =>
           /\ ~Stage2Invoked
           /\ RunEnded => report = status_message(results_stage1)
    /\ RunEnded /\ results \notin {NoResults, OkOptimal} =>
           /\ ~FilesWritten
           /\ report = status_message(results)
    /\ status_message(OkInfeasible) # status_message(OkUnbounded)

\* C18: in one run of opt_model the solver is invoked at most once for Stage 1
\* and at most once for Stage 2, in that order; after a failed solve no
\* further solve of the same stage is made.
C18_NoRetry ==
    /\ Cardinality(CallsOfStage(1)) <= 1
    /\ Cardinality(CallsOfStage(2)) <= 1
    /\ Len(solver_log) <= 2
    /\ \A i \in 1..Len(solver_log) : solver_log[i].stage = i

\* C18 happens: a run has ended in which both solves failed
C18_Witness ==
    /\ pc = "done"
    /\ results_stage1.status = "warning"
    /\ results.status = "error"
    /\ Len(solver_log) = 2

(* ===================================================================== *)
(* update_fields (src/calculate_cost_wt.py for the turbine layer "wt",   *)
(* src/ArcPy-OWE_calculate_dataset_costs_oss.py for the substation layer *)
(* "oss")                                                                *)
(* ===================================================================== *)

\* required_fields, in the order they are checked
required_fields(tool) ==
    IF tool = "wt" THEN <<"WaterDepth", "Capacity", "Distance", "IceCover">>
    ELSE <<"WaterDepth", "Distance">>

\* the fields update_fields adds: TotalCost for turbines; SuppStruct and the
\* cost columns for substations ("Sup500_AC" stands for the 70 columns, which
\* are added together and indexed together)
fields_to_add(tool) ==
    IF tool = "wt" THEN {"TotalCost"} ELSE {"SuppStruct", "Sup500_AC"}

\* the layers a run can meet: none, or one with some fields and some rows
Layers(tool) ==
    {NoLayer} \cup
    [found : {TRUE},
     fields : SUBSET (Range(required_fields(tool)) \cup fields_to_add(tool)),
     rows : UNION {[1..n -> [updated : {FALSE}]] : n \in 0..MaxRows}]

\* opt_model is not running
OptIdle ==
    /\ wf_dataset = <<>>
    /\ oss_dataset = <<>>
    /\ onss_dataset = <<>>
    /\ NothingBuilt

FieldsInit ==
    /\ uf_tool \in {"wt", "oss"}
    /\ uf_pc = "find"
    /\ layer \in Layers(uf_tool)
    /\ existing_fields = {}
    /\ messages = <<>>
    /\ OptIdle
    /\ CostIdle
    /\ ExtractionIdle

AddError(text) == Append(messages, [level |-> "error", text |-> text])
AddMessage(text) == Append(messages, [level |-> "message", text |-> text])

\* the layer lookup and the selection clearing
FindLayer ==
    /\ uf_pc = "find"
    /\ IF ~layer.found
       THEN /\ messages' = AddError(<<"No layer starting with '",
                                      IF uf_tool = "wt" THEN "WTC" ELSE "OSSC",
                                      "' found in the current map.">>)
            /\ uf_pc' = "done"
       ELSE /\ messages' = AddMessage(<<"Processing layer: ", uf_tool>>)
            /\ uf_pc' = "check"
    /\ UNCHANGED <<opt, costing, extraction, uf_tool, layer, existing_fields>>

\* the positions of the required fields that the table lacks
MissingAt(tool, names) ==
    {i \in 1..Len(required_fields(tool)) : required_fields(tool)[i] \notin names}

\* the check that reports the first missing field and goes on all the same
CheckRequiredFields_no_return ==
    /\ uf_pc = "check"
    /\ existing_fields' = layer.fields
    /\ LET missing == MissingAt(uf_tool, layer.fields)
           first == CHOOSE i \in missing : \A j \in missing : i <= j
       IN IF missing # {}
          THEN messages' = AddError(<<"Required field '", required_fields(uf_tool)[first],
                                      "' is missing in the attribute table.">>)
          ELSE messages' = messages
    /\ uf_pc' = "add"
    /\ UNCHANGED <<opt, costing, extraction, uf_tool, layer>>

\* the field names are read, then: for field in required_fields: if field
\* not in the names: AddError, return
CheckRequiredFields ==
    /\ uf_pc = "check"
    /\ existing_fields' = layer.fields
    /\ LET missing == MissingAt(uf_tool, layer.fields)
           first == CHOOSE i \in missing : \A j \in missing : i <= j
       IN IF missing # {}
          THEN /\ messages' = AddError(<<"Required field '", required_fields(uf_tool)[first],
                                         "' is missing in the attribute table.">>)
               /\ uf_pc' = "done"
          ELSE /\ messages' = messages
               /\ uf_pc' = "add"
    /\ UNCHANGED <<opt, costing, extraction, uf_tool, layer>>

\* the fields to add are added if the names read lack one of them
AddFields ==
    /\ uf_pc = "add"
    /\ IF fields_to_add(uf_tool) \subseteq existing_fields
       THEN UNCHANGED <<layer, messages>>
       ELSE /\ layer' = [layer EXCEPT !.fields = @ \cup fields_to_add(uf_tool)]
            /\ messages' = IF uf_tool = "wt"
                           THEN AddMessage(<<"Field '", "TotalCost",
                                             "' added to the attribute table.">>)
                           ELSE messages
    /\ uf_pc' = "update"
    /\ UNCHANGED <<opt, costing, extraction, uf_tool, existing_fields>>

\* the substation tool indexes each row by the names read before the fields
\* were added: field_names.index(...) raises on the first row for a field
\* that was not there
IndexRaises ==
    /\ uf_tool = "oss"
    /\ layer.rows # <<>>
    /\ ~(fields_to_add(uf_tool) \subseteq existing_fields)

\* the update cursor: every row gets its costs
UpdateRows ==
    /\ uf_pc = "update"
    /\ ~IndexRaises
    /\ layer' = [layer EXCEPT !.rows = [i \in DOMAIN layer.rows |-> [updated |-> TRUE]]]
    /\ messages' = IF uf_tool = "oss"
                   THEN AddMessage(<<"Attribute table of ", uf_tool, " updated successfully.">>)
                   ELSE messages
    /\ uf_pc' = "done"
    /\ UNCHANGED <<opt, costing, extraction, uf_tool, existing_fields>>

UpdateRowsRaise ==
    /\ uf_pc = "update"
    /\ IndexRaises
    /\ uf_pc' = "raised"
    /\ UNCHANGED <<opt, costing, extraction, uf_tool, layer, existing_fields, messages>>

FieldsNext ==
    \/ FindLayer
    \/ CheckRequiredFields
    \/ AddFields
    \/ UpdateRows
    \/ UpdateRowsRaise

FieldsSpec == FieldsInit /\ [][FieldsNext]_vars

\* the required fields that the layer's attribute table lacks
MissingRequired ==
    {required_fields(uf_tool)[i] : i \in MissingAt(uf_tool, layer.fields)}

\* C19: in the update_fields operations, if a required attribute field
\* (WaterDepth, Capacity, Distance, IceCover for turbines; WaterDepth, Distance
\* for offshore substations) is missing from the layer's attribute table, the
\* operation reports an error naming a missing field and returns, and no step
\* of it adds a field or updates a row.
C19_MissingFieldAborts ==
    /\ [](layer.found /\ MissingRequired # {} =>
            /\ uf_pc \in {"find", "check", "done"}
            /\ uf_pc = "done" =>
                   \E f \in MissingRequired :
                       messages[Len(messages)] =
                           [level |-> "error",
                            text |-> <<"Required field '", f,
                                       "' is missing in the attribute table.">>])
    /\ [][layer.found /\ MissingRequired # {} => layer' = layer]_vars

\* C19 happens: a run on a layer with rows that lacks two required fields and
\* TotalCost has ended
C19_Witness ==
    /\ uf_pc = "done"
    /\ layer.found
    /\ Cardinality(MissingRequired) = 2
    /\ layer.rows # <<>>
    /\ "TotalCost" \notin layer.fields
    /\ uf_tool = "wt"

(***************************************************************************)
(* Offshore substation costs (ArcPy-OWE_calculate_dataset_costs_oss.py).   *)
(* Python values: a number is PyNum(n), None is PyNone, NaN is PyNaN.  The *)
(* code computes in floating point; here costs are whole euros and every   *)
(* division rounds down, pi is 22/7 and the square root is the integer     *)
(* square root.  An exception is the record Raised(name).                  *)
(***************************************************************************)
PyNone == [kind |-> "None", val |-> 0]
PyNaN == [kind |-> "nan", val |-> 0]
PyNum(n) == [kind |-> "num", val |-> n]
Raised(exc) == [kind |-> "raised", val |-> exc]

\* the keys of support_structure_coeff
KnownStructures == {"sandisland", "jacket", "floating"}

\* what determine_support_structure gives when no branch returns, and the
\* outcome of a call of it that raises TypeError
NoneStructure == "<None>"
RaisesTypeError == "<TypeError>"

isqrt(n) == CHOOSE r \in 0..n : r * r <= n /\ n < (r + 1) * (r + 1)

\* determine_support_structure(water_depth): every comparison with NaN is
\* False, so no branch returns; comparing None with a number raises
determine_support_structure(water_depth) ==
    IF water_depth.kind = "None" THEN RaisesTypeError
    ELSE IF water_depth.kind = "num" /\ water_depth.val < 30 THEN "sandisland"
    ELSE IF water_depth.kind = "num" /\ 30 <= water_depth.val
                                     /\ water_depth.val < 150 THEN "jacket"
    ELSE IF water_depth.kind = "num" /\ 150 <= water_depth.val THEN "floating"
    ELSE NoneStructure

\* equivalent electrical power
equiv_capacity(oss_capacity, HVC_type) ==
    IF HVC_type = "AC" THEN oss_capacity \div 2 ELSE oss_capacity

\* volume of the sand island, a truncated cone of slope 0.75
volume_island(water_depth, area_island) ==
    LET r_hub == isqrt((area_island * 7) \div 22)
        r_seabed == r_hub + (4 * (water_depth + 3)) \div 3
    IN (11 * (r_seabed * r_seabed * r_seabed - r_hub * r_hub * r_hub))
           \div 14

\* calc_equip_costs: the lookup support_structure_coeff[support_structure]
\* raises KeyError for a key that is not in the table
calc_equip_costs(water_depth, support_structure, oss_capacity, HVC_type) ==
    IF support_structure \notin KnownStructures THEN Raised("KeyError")
    ELSE
    LET equiv == equiv_capacity(oss_capacity, HVC_type)
        area_island == equiv * 5
        supp_costs ==
            CASE support_structure = "sandisland" ->
                   (326 * volume_island(water_depth, area_island)) \div 100
                       + 804 * area_island
              [] support_structure = "jacket" ->
                   (233 * water_depth + 47 * 1000) * equiv
                       + (309 * water_depth + 62 * 1000)
              [] support_structure = "floating" ->
                   (87 * water_depth + 68 * 1000) * equiv
                       + (116 * water_depth + 91 * 1000)
        conv_costs ==
            IF HVC_type = "AC" THEN 22870 * oss_capacity + 7060000
                               ELSE 102930 * oss_capacity + 31750000
    IN [kind |-> "tuple", supp_costs |-> supp_costs, conv_costs |-> conv_costs,
        equip_costs |-> supp_costs + conv_costs]

\* cost of one vessel: ((1 / c1) * ((2 * port_distance) / c2 + c3) + c4)
\* * (c5 * 1000) / 24, with c2 given in tenths of km/h
vessel_costs(port_distance, c1, c2_tenths, c3, c4, c5) ==
    ((20 * port_distance + c2_tenths * c3 + c1 * c2_tenths * c4) * c5 * 125)
        \div (c1 * c2_tenths * 3)

\* calc_costs: installation or decommissioning costs; None in the else branch
calc_costs(water_depth, support_structure, port_distance, oss_capacity, HVC_type, operation) ==
    CASE support_structure = "sandisland" ->
           LET depth == IF water_depth > 0 THEN water_depth ELSE 0
               volume == volume_island(depth,
                             equiv_capacity(oss_capacity, HVC_type) * 5)
           IN PyNum(((((volume \div 20000) * 2 * port_distance) \div 25
                       + volume \div 2000 + volume \div 6000) * 15 * 1000)
                          \div 24)
      [] support_structure = "jacket" ->
           PyNum(vessel_costs(port_distance, 1, 185, 24, 96, 200))
      [] support_structure = "floating" ->
           PyNum(vessel_costs(port_distance, 1, 225, 10, 0, 40)
                   + vessel_costs(port_distance, 3, 185, 30,
                                  IF operation = "inst" THEN 90 ELSE 30, 40))
      [] OTHER -> PyNone

\* Python's a + b and rnd(r) = round(r / int(1e6), 6): both raise TypeError on
\* None; rnd keeps six decimals of the value in millions, that is whole euros
py_add(a, b) ==
    IF a.kind = "num" /\ b.kind = "num" THEN PyNum(a.val + b.val)
    ELSE Raised("TypeError")
rnd(r) == IF r.kind = "num" THEN r ELSE Raised("TypeError")

\* str.capitalize() on the three names
capitalize(s) ==
    CASE s = "sandisland" -> "Sandisland"
      [] s = "jacket" -> "Jacket"
      [] s = "floating" -> "Floating"

\* the arguments of a direct call of calc_costs
CalcCostsArgs ==
    [op : {"calc_costs"},
     water_depth : {10, 50, 200},
     support_structure : KnownStructures
         \cup {"monopile", "default", "Jacket", NoneStructure},
     port_distance : {0, 50},
     oss_capacity : {500, 1000},
     HVC_type : {"AC", "DC"},
     operation : {"inst", "deco"}]

\* a row of the OSSC layer and one (capacity, sub_type) of the loops
RowArgs ==
    [op : {"update_fields"},
     water_depth : {PyNum(10), PyNum(50), PyNum(200), PyNaN, PyNone},
     port_distance : {0, 50},
     oss_capacity : {500, 1000},
     HVC_type : {"AC", "DC"}]

CostInit ==
    /\ cost_args \in CalcCostsArgs \cup RowArgs
    /\ cost_pc = IF cost_args.op = "calc_costs" THEN "call" ELSE "row"
    /\ cost_vals = <<>>
    /\ OptIdle
    /\ FieldsIdle
    /\ ExtractionIdle

\* a caller evaluates calc_costs(...)
CallCalcCosts ==
    /\ cost_pc = "call"
    /\ cost_vals' = [total_costs |->
           calc_costs(cost_args.water_depth, cost_args.support_structure,
                      cost_args.port_distance, cost_args.oss_capacity,
                      cost_args.HVC_type, cost_args.operation)]
    /\ cost_pc' = "returned"
    /\ UNCHANGED <<opt, uf, extraction, cost_args>>

\* update_fields, per row: the support structure and the SuppStruct field
RowSupportStructure ==
    /\ cost_pc = "row"
    /\ LET support_structure ==
               determine_support_structure(cost_args.water_depth)
       IN IF support_structure \in KnownStructures
          THEN /\ cost_vals' = [support_structure |-> support_structure,
                                SuppStruct |-> capitalize(support_structure)]
               /\ cost_pc' = "costs"
          ELSE /\ cost_vals' = [exception |->
                      IF support_structure = NoneStructure
                      THEN Raised("AttributeError") ELSE Raised("TypeError")]
               /\ cost_pc' = "raised"
    /\ UNCHANGED <<opt, uf, extraction, cost_args>>

\* update_fields, per row, capacity and sub_type: the seven cost fields
RowCosts ==
    /\ cost_pc = "costs"
    /\ LET water_depth == cost_args.water_depth.val
           support_structure == cost_vals.support_structure
           equip == calc_equip_costs(water_depth, support_structure,
                        cost_args.oss_capacity, cost_args.HVC_type)
           inst_costs == calc_costs(water_depth, support_structure,
                             cost_args.port_distance, cost_args.oss_capacity,
                             cost_args.HVC_type, "inst")
           deco_costs == calc_costs(water_depth, support_structure,
                             cost_args.port_distance, cost_args.oss_capacity,
                             cost_args.HVC_type, "deco")
           capital_expenses == py_add(PyNum(equip.equip_costs), inst_costs)
           operating_expenses ==
               IF support_structure = "sandisland"
               THEN (3 * equip.conv_costs) \div 100
                        + (15 * equip.supp_costs) \div 1000
               ELSE (3 * equip.conv_costs) \div 100
       IN IF /\ equip.kind = "tuple"
             /\ rnd(inst_costs).kind = "num"
             /\ rnd(deco_costs).kind = "num"
          THEN /\ cost_vals' =
                      [support_structure |-> support_structure,
                       SuppStruct |-> cost_vals.SuppStruct,
                       Sup |-> PyNum(equip.supp_costs),
                       Cnv |-> PyNum(equip.conv_costs),
                       Equ |-> PyNum(equip.equip_costs),
                       Ins |-> rnd(inst_costs),
                       Dec |-> rnd(deco_costs),
                       Cap |-> rnd(capital_expenses),
                       Ope |-> PyNum(operating_expenses)]
               /\ cost_pc' = "done"
          ELSE /\ cost_vals' = [exception |->
                      IF equip.kind = "raised" THEN equip
                                               ELSE Raised("TypeError")]
               /\ cost_pc' = "raised"
    /\ UNCHANGED <<opt, uf, extraction, cost_args>>

CostNext ==
    \/ CallCalcCosts
    \/ RowSupportStructure
    \/ RowCosts

CostSpec == CostInit /\ [][CostNext]_vars

\* the support structure of the computation at hand is none of the three
UnrecognisedStructure ==
    \/ /\ cost_args.op = "calc_costs"
       /\ cost_args.support_structure \notin KnownStructures
    \/ /\ cost_args.op = "update_fields"
       /\ determine_support_structure(cost_args.water_depth)
              \notin KnownStructures

\* calc_costs itself: for an unrecognised support structure it returns None
CalcCostsReturnsNone ==
    cost_pc = "returned" =>
        (cost_vals.total_costs = PyNone
            <=> cost_args.support_structure \notin KnownStructures)

CalcCostsReturnsNone_Witness ==
    /\ cost_pc = "returned"
    /\ cost_args.support_structure = "monopile"
    /\ cost_vals.total_costs = PyNone

\* C20: for a support structure other than 'sandisland', 'jacket' and
\* 'floating' the cost function returns None without raising, and the
\* computation of that substation's costs ends, without raising, with the
\* capital expenses (the aggregate of the installation costs) absent instead of
\* a number.
C20_UnknownStructureAbsentCost ==
    UnrecognisedStructure =>
        /\ cost_pc # "raised"
        /\ cost_pc = "returned" => cost_vals.total_costs = PyNone
        /\ cost_pc = "done" => cost_vals.Cap = PyNone

(***************************************************************************)
(* The placeholder cost functions as pure functions: each is called twice, *)
(* with the same attributes and two capacities, as the model calls it      *)
(* (polarity "AC").                                                        *)
(***************************************************************************)
PlhCapacities == {0, 10, 20, 500, 800, 1000}

OssPlhArgs ==
    [op : {"oss_cost_plh"}, wdepth : {0, 10, 200}, icover : {0, 1},
     pdist : {0, 50}, capacity : PlhCapacities, capacity2 : PlhCapacities]

CablePlhArgs ==
    [op : {"iac_cost_plh", "ec_cost_plh"}, distance : {0, 10, 150, 300},
     capacity : PlhCapacities, capacity2 : PlhCapacities]

OnssPlhArgs ==
    [op : {"onss_cost_plh"}, threshold : {0, 10, 800, 2000},
     capacity : PlhCapacities, capacity2 : PlhCapacities]

PlhInit ==
    /\ cost_args \in OssPlhArgs \cup CablePlhArgs \cup OnssPlhArgs
    /\ cost_pc = "call"
    /\ cost_vals = <<>>
    /\ OptIdle
    /\ FieldsIdle
    /\ ExtractionIdle

CallOssCostPlh ==
    /\ cost_pc = "call"
    /\ cost_args.op = "oss_cost_plh"
    /\ cost_vals' =
           [cost |-> oss_cost_plh(cost_args.wdepth, cost_args.icover,
                                  cost_args.pdist, cost_args.capacity),
            cost2 |-> oss_cost_plh(cost_args.wdepth, cost_args.icover,
                                   cost_args.pdist, cost_args.capacity2)]
    /\ cost_pc' = "returned"
    /\ UNCHANGED <<opt, uf, extraction, cost_args>>

CallIacCostPlh ==
    /\ cost_pc = "call"
    /\ cost_args.op = "iac_cost_plh"
    /\ cost_vals' =
           [cost |-> iac_cost_plh(cost_args.distance, cost_args.capacity),
            cost2 |-> iac_cost_plh(cost_args.distance, cost_args.capacity2)]
    /\ cost_pc' = "returned"
    /\ UNCHANGED <<opt, uf, extraction, cost_args>>

CallEcCostPlh ==
    /\ cost_pc = "call"
    /\ cost_args.op = "ec_cost_plh"
    /\ cost_vals' =
           [cost |-> ec_cost_plh(cost_args.distance, cost_args.capacity),
            cost2 |-> ec_cost_plh(cost_args.distance, cost_args.capacity2)]
    /\ cost_pc' = "returned"
    /\ UNCHANGED <<opt, uf, extraction, cost_args>>

CallOnssCostPlh ==
    /\ cost_pc = "call"
    /\ cost_args.op = "onss_cost_plh"
    /\ cost_vals' =
           [cost |-> onss_cost_plh(cost_args.capacity, cost_args.threshold),
            cost2 |-> onss_cost_plh(cost_args.capacity2, cost_args.threshold)]
    /\ cost_pc' = "returned"
    /\ UNCHANGED <<opt, uf, extraction, cost_args>>

PlhNext ==
    \/ CallOssCostPlh
    \/ CallIacCostPlh
    \/ CallEcCostPlh
    \/ CallOnssCostPlh

PlhSpec == PlhInit /\ [][PlhNext]_vars

\* C21: every placeholder cost function gives a non-negative cost that does
\* not decrease when the capacity grows, and onss_cost_plh is 0 up to the
\* threshold and 1000 * (capacity - threshold) above it.
C21_CostsNonNegativeMonotone ==
    cost_pc = "returned" =>
        /\ cost_vals.cost >= 0
        /\ cost_args.capacity <= cost_args.capacity2 =>
               cost_vals.cost <= cost_vals.cost2
        /\ cost_args.op = "onss_cost_plh" =>
               cost_vals.cost =
                   IF cost_args.capacity <= cost_args.threshold THEN 0
                   ELSE 1000 * (cost_args.capacity - cost_args.threshold)

\* C21 happens: onss_cost_plh was called below and above the threshold
C21_Witness ==
    /\ cost_pc = "returned"
    /\ cost_args.op = "onss_cost_plh"
    /\ cost_args.capacity < cost_args.threshold
    /\ cost_args.capacity2 > cost_args.threshold
    /\ cost_vals.cost = 0
    /\ cost_vals.cost2 > 0

\* C22: once the model is constructed, the entity attributes and the feasible
\* edge and viable-node sets never change again, and until the status check
\* (where results are extracted) nothing is written: a step changes only the
\* variable values, their fixed flags, the constraints' active flags and the
\* orchestrator's own position and solver returns.
C22_LifecycleFrame ==
    [][pc # "define" =>
          /\ UNCHANGED <<datasets, graph>>
          /\ pc # "check" => UNCHANGED <<result_files, report>>]_vars

\* C22 happens: both stages ran, variables are fixed, constraints were
\* switched, values were loaded and results were extracted
C22_Witness ==
    /\ pc = "done"
    /\ FilesWritten
    /\ fixed.wf_bool_var # {}
    /\ "ec_cap_connect_con" \in active
    /\ \E e \in DOMAIN iac_cap_var : iac_cap_var[e] > 0
    /\ \E e \in DOMAIN iac_cap_var : iac_cap_var[e] = 0

\* One wind farm of capacity 2 within reach of two offshore substations of
\* its country, which both reach the onshore substation; the threshold 1
\* puts capacity 1 in the range of the variables.
SplitWfDataset ==
    <<[id |-> 1, iso |-> 1, lon |-> 0, lat |-> 0, cap |-> 2, cost |-> 100]>>
SplitOssRows ==
    [id : 1..2, iso : {1}, lon : {0}, lat : {100, 150},
     wdepth : OssWdepths, icover : OssIcovers, pdist : OssPdists]
SplitOnssRows ==
    [id : 1..3, iso : {1}, lon : {0}, lat : {400}, thold : {1}]

SplitInit ==
    /\ wf_dataset = SplitWfDataset
    /\ oss_dataset \in RowsOf(2, 1..2, SplitOssRows)
    /\ onss_dataset \in RowsOf(1, 1..3, SplitOnssRows)
    /\ NothingBuilt
    /\ ToolsIdle

SplitSpec == SplitInit /\ [][ScenarioNext]_vars

\* the offshore substations a wind farm has a connection of positive
\* capacity to
ConnectedOss(wf) ==
    {oss \in viable_oss_ids :
        <<wf, oss>> \in DOMAIN iac_cap_var /\ iac_cap_var[<<wf, oss>>] > 0}

\* C23: in every accepted solution (both solves ok-optimal, results saved)
\* each selected wind farm has exactly one inter-array connection of positive
\* capacity, and that capacity is the wind farm's capacity.
C23_ExactlyOneConnection ==
    FilesWritten /\ BothStagesOptimal =>
        \A wf \in viable_wf_ids :
            wf_bool_var[wf] = 1 =>
                /\ Cardinality(ConnectedOss(wf)) = 1
                /\ \A oss \in ConnectedOss(wf) :
                       iac_cap_var[<<wf, oss>>] = wf_cap.val[wf]

\* opt_model is straight-line code: a step that can be taken is taken, and
\* every blocking solver call returns
LiveInit ==
    /\ wf_dataset \in RowsOf(1, 1..1, WfRows)
    /\ oss_dataset \in RowsOf(1, 1..1, OssRows)
    /\ onss_dataset \in RowsOf(1, 1..1, OnssRows)
    /\ NothingBuilt
    /\ ToolsIdle

LiveSpec == LiveInit /\ [][Next]_vars /\ WF_vars(Next)

\* the run is over, by a return or by an exception that leaves opt_model
RunTerminates == <>RunEnded

\* C24: provided every solver call returns, every run of opt_model reaches a
\* terminal state in which results were saved or a status report was printed,
\* having called the solver for Stage 1 and then for Stage 2, once each.
C24_ReachesReportedEnd ==
    <>(/\ pc = "done"
       /\ FilesWritten \/ report # ""
       /\ Len(solver_log) = 2
       /\ solver_log[1].stage = 1
       /\ solver_log[2].stage = 2)

(***************************************************************************)
(* offshore_substation_costs of the optimiser file, followed up to its     *)
(* call of present_value.  Its nested support_structure, equip_costs and   *)
(* inst_deco_costs repeat determine_support_structure, calc_equip_costs    *)
(* and calc_costs; equip_costs adds the ice cover adaptation.              *)
(***************************************************************************)
\* the nested function support_structure itself, as a value
FunctionObject == "<function support_structure>"

\* equip_costs (nested): 10 % on the support structure under ice cover
equip_costs(water_depth, support_structure, ice_cover, oss_capacity, polarity) ==
    LET e == calc_equip_costs(water_depth, support_structure, oss_capacity, polarity)
        supp_costs == IF ice_cover = 1 THEN Times11Over10(e.supp_costs)
                                       ELSE e.supp_costs
    IN [supp_costs |-> supp_costs, conv_costs |-> e.conv_costs,
        equip_costs |-> supp_costs + e.conv_costs]

\* oper_costs (nested)
oper_costs(support_structure, supp_costs, conv_costs) ==
    IF support_structure = "sandisland"
    THEN (3 * conv_costs) \div 100 + (15 * supp_costs) \div 1000
    ELSE (3 * conv_costs) \div 100

OffshoreSubstationArgs ==
    [op : {"offshore_substation_costs"},
     water_depth : {10, 29, 30, 50, 200},
     ice_cover : {0, 1},
     port_distance : {0, 50},
     oss_capacity : {500, 1000},
     polarity : {"AC", "DC"}]

OffshoreSubstationInit ==
    /\ cost_args \in OffshoreSubstationArgs
    /\ cost_pc = "call"
    /\ cost_vals = <<>>
    /\ OptIdle
    /\ FieldsIdle
    /\ ExtractionIdle

\* lines 333-340: support structure, equipment, installation and
\* decommissioning costs
OscCapitalCosts ==
    /\ cost_pc = "call"
    /\ LET supp_structure ==
               determine_support_structure(PyNum(cost_args.water_depth))
           e == equip_costs(cost_args.water_depth, supp_structure,
                            cost_args.ice_cover, cost_args.oss_capacity,
                            cost_args.polarity)
       IN cost_vals' =
              [supp_structure |-> supp_structure,
               supp_costs |-> e.supp_costs,
               conv_costs |-> e.conv_costs,
               equip_costs |-> e.equip_costs,
               inst_costs |-> calc_costs(cost_args.water_depth, supp_structure,
                                  cost_args.port_distance, cost_args.oss_capacity,
                                  cost_args.polarity, "inst"),
               deco_costs |-> calc_costs(cost_args.water_depth, supp_structure,
                                  cost_args.port_distance, cost_args.oss_capacity,
                                  cost_args.polarity, "deco")]
    /\ cost_pc' = "oper"
    /\ UNCHANGED <<opt, uf, extraction, cost_args>>

\* line 343: oper_costs is handed support_structure, the nested function,
\* where the name of the structure is supp_structure
OscOperCosts ==
    /\ cost_pc = "oper"
    /\ cost_vals' =
           [f \in DOMAIN cost_vals \cup {"ope_costs_yearly"} |->
               IF f = "ope_costs_yearly"
               THEN oper_costs(FunctionObject, cost_vals.supp_costs,
                               cost_vals.conv_costs)
               ELSE cost_vals[f]]
    /\ cost_pc' = "present_value"
    /\ UNCHANGED <<opt, uf, extraction, cost_args>>

OffshoreSubstationNext ==
    \/ OscCapitalCosts
    \/ OscOperCosts

OffshoreSubstationSpec ==
    OffshoreSubstationInit /\ [][OffshoreSubstationNext]_vars

\* C25: the yearly operating cost that offshore_substation_costs passes to
\* present_value is 0.03 * converter cost + 0.015 * support-structure cost
\* when the water depth gives 'sandisland' (depth < 30), and 0.03 * converter
\* cost otherwise.
C25_OperatingCostRule ==
    cost_pc = "present_value" =>
        cost_vals.ope_costs_yearly =
            IF cost_args.water_depth < 30
            THEN (3 * cost_vals.conv_costs) \div 100
                     + (15 * cost_vals.supp_costs) \div 1000
            ELSE (3 * cost_vals.conv_costs) \div 100

\* C26: when the Stage 1 solve, as coded, returned ok-optimal, the problem
\* handed to the Stage 2 solve (selection, offshore and inter-array capacities
\* fixed, constraints 4 and 5 active) has a feasible point.
C26_Stage2Feasible ==
    pc = "stage2_solve" /\ results_stage1 = OkOptimal =>
        FeasiblePoints(active, fixed) # {}

\* C26 happens: Stage 2 is about to be solved after an optimal Stage 1 that
\* gave an offshore substation a positive capacity
C26_Witness ==
    /\ pc = "stage2_solve"
    /\ results_stage1 = OkOptimal
    /\ active = {"ec_cap_connect_con", "onss_cap_connect_con"}
    /\ \E oss \in DOMAIN oss_cap_var : oss_cap_var[oss] > 0 /\ oss \in fixed.oss_cap_var

(***************************************************************************)
(* The indices at which the Expressions, the objective and the constraint  *)
(* rules read each Var: the generator expressions of lines 684-808.        *)
(***************************************************************************)
\* wf_cost_rule, tot_wf_cap_rule, iac_cap_connect_rule
wf_bool_var_refs == viable_wf_ids

\* oss_cost_rule, oss_cap_connect_rule, ec_cap_connect_rule
oss_cap_var_refs == viable_oss_ids

\* onss_cost_rule, onss_cap_connect_rule
onss_cap_var_refs == viable_onss_ids

\* iac_cost_rule, iac_cap_connect_rule, oss_cap_connect_rule
iac_cap_var_refs ==
    viable_iac_ids
        \cup UNION {{<<wf, oss>> : oss \in {o \in viable_oss_ids :
                                             <<wf, o>> \in viable_iac_ids}} :
                    wf \in viable_wf_ids}
        \cup UNION {{<<wf, oss>> : wf \in {w \in viable_wf_ids :
                                            <<w, oss>> \in viable_iac_ids}} :
                    oss \in viable_oss_ids}

\* the export references without the `if (oss, onss) in model.viable_ec_ids`
ec_cap_var_refs_unguarded ==
    viable_ec_ids
        \cup (viable_oss_ids \X viable_oss_ids)
        \cup (viable_oss_ids \X viable_onss_ids)

\* ec_cost_rule, ec_cap_connect_rule (its onss runs over viable_oss_ids),
\* onss_cap_connect_rule
ec_cap_var_refs ==
    viable_ec_ids
        \cup UNION {{<<oss, onss>> : onss \in {o \in viable_oss_ids :
                                               <<oss, o>> \in viable_ec_ids}} :
                    oss \in viable_oss_ids}
        \cup UNION {{<<oss, onss>> : oss \in {o \in viable_oss_ids :
                                              <<o, onss>> \in viable_ec_ids}} :
                    onss \in viable_onss_ids}

\* C27: every index at which the objective or a constraint rule reads a
\* decision variable is a declared index of that variable, whatever the
\* input graph.
C27_ReferencedIndicesDeclared ==
    pc # "define" =>
        /\ wf_bool_var_refs \subseteq DOMAIN wf_bool_var
        /\ oss_cap_var_refs \subseteq DOMAIN oss_cap_var
        /\ onss_cap_var_refs \subseteq DOMAIN onss_cap_var
        /\ iac_cap_var_refs \subseteq DOMAIN iac_cap_var
        /\ ec_cap_var_refs \subseteq DOMAIN ec_cap_var

\* C27 happens: a model was built on a graph in which an onshore substation
\* id is also an offshore substation id and another offshore substation has
\* no export connection to it
C27_Witness ==
    /\ pc = "stage1"
    /\ viable_iac_ids # {}
    /\ viable_ec_ids # {}
    /\ viable_onss_ids \cap viable_oss_ids # {}
    /\ (viable_oss_ids \X viable_oss_ids) \ viable_ec_ids # {}

\* C28: in the written results every inter-array record names an offshore
\* substation that has a record of its own, and every export record names an
\* onshore substation that has a record of its own.
C28_ResultsReferentiallyConsistent ==
    FilesWritten =>
        /\ \A r \in result_files.iac_ids :
               \E o \in result_files.oss_ids : o.id = r.oss_id
        /\ \A r \in result_files.ec_ids :
               \E o \in result_files.onss_ids : o.id = r.onss_id

\* the export half of it
ExportRecordsConsistent ==
    FilesWritten =>
        \A r \in result_files.ec_ids :
            \E o \in result_files.onss_ids : o.id = r.onss_id

\* both halves, for runs whose Stage 1 solve returned ok-optimal
RecordsConsistentAfterOptimalStage1 ==
    BothStagesOptimal => C28_ResultsReferentiallyConsistent

(***************************************************************************)
(* save_results on one item of a collection with a capacity, taken by      *)
(* itself.  The Vars are NonNegativeReals, so the value the solver loaded  *)
(* need not be whole: here it is counted in tenths of a unit, and round()  *)
(* is Python's, which rounds a half to the even neighbour.                 *)
(***************************************************************************)
\* round(v.value), for a value given in tenths
round_tenths(t) ==
    LET q == t \div 10
        r == t % 10
    IN IF r < 5 THEN q
       ELSE IF r > 5 THEN q + 1
       ELSE IF q % 2 = 0 THEN q ELSE q + 1

var_f_tenths(t) == round_tenths(t)

CapacityCollections == {"oss_ids", "onss_ids", "iac_ids", "ec_ids"}

ExtractInit ==
    /\ item \in [key : CapacityCollections, value : 0..MaxTenths]
    /\ item_records = <<>>
    /\ OptIdle
    /\ FieldsIdle
    /\ CostIdle

\* the item passes `if model.<var>[i].value > 0`: a record with
\* var_f(model.<var>[i]) as its capacity
EmitRecord ==
    /\ item # <<>>
    /\ item_records = <<>>
    /\ item.value > 0
    /\ item_records' = <<[key |-> item.key, capacity |-> var_f_tenths(item.value)]>>
    /\ UNCHANGED <<opt, uf, costing, item>>

\* the item fails the filter: no record, the comprehension moves on
SkipItem ==
    /\ item # <<>>
    /\ item.value <= 0
    /\ item' = <<>>
    /\ UNCHANGED <<opt, uf, costing, item_records>>

ExtractNext ==
    \/ EmitRecord
    \/ SkipItem

ExtractSpec == ExtractInit /\ [][ExtractNext]_vars

\* C29: every substation or edge record that save_results writes has a
\* persisted (rounded) capacity that is strictly positive.
C29_PersistedCapacityPositive ==
    \A i \in 1..Len(item_records) : item_records[i].capacity > 0

\* every assignment within the domains of the Vars (binary selection,
\* capacities in CapRange), whatever the constraints
DomainPoints == FeasiblePoints({}, NothingFixed)

\* C30: the objective is at least zero at every assignment within the
\* variable domains, for the declared non-negative parameters, so the
\* minimisation of neither stage is unbounded.
C30_ObjectiveBoundedBelow ==
    pc = "stage1_solve" =>
        \A p \in DomainPoints : global_cost_rule(p) >= 0

\* C30 happens: a model whose onshore threshold is positive, so that the
\* onshore cost is clamped at the all-zero assignment, and whose objective
\* is positive there and larger at another assignment
C30_Witness ==
    /\ pc = "stage1_solve"
    /\ \E onss \in viable_onss_ids : onss_thold.val[onss] > 0
    /\ \E p, q \in DomainPoints :
           /\ \A e \in DOMAIN p.ec_cap_var : p.ec_cap_var[e] = 0
           /\ \A o \in DOMAIN p.onss_cap_var : p.onss_cap_var[o] = 0
           /\ global_cost_rule(p) > 0
           /\ global_cost_rule(q) > global_cost_rule(p)
====
